---- MODULE Spec2Model ----
(***************************************************************************)
(* Model of the cross-source engine of FDA-Devices:                        *)
(*   - DataRelationshipMapper (src/testing/data_relationships.py):         *)
(*     create_comprehensive_profile, _extract_device_identifiers, the      *)
(*     per-source _process_* methods, _calculate_risk_score and the final  *)
(*     timeline sort;                                                      *)
(*   - EnhancedFDARetriever (src/testing/data_retrieval_enhanced.py):      *)
(*     _build_comprehensive_search, _make_request, get_comprehensive_data, *)
(*     get_cross_referenced_data;                                          *)
(*   - generate_regulatory_summary of the mapper (its safety signals);     *)
(*   - filter_by_date, process_results, process_event_data and             *)
(*     add_missing_columns (src/fda_data.py).                              *)
(*                                                                         *)
(* Text is a sequence of pieces, concatenated by \o.  Wherever the code    *)
(* looks into a text (substring tests, slicing, lower(), split(), len())   *)
(* the pieces are its characters, so that these are computed, not assumed; *)
(* only the field names of a search expression are pieces of their own.    *)
(* A DataFrame cell is a tagged value (Cell below).                        *)
(***************************************************************************)
EXTENDS Integers, Sequences, FiniteSets, TLC

VARIABLES
    \* ---- create_comprehensive_profile
    fda_data,       \* the dict argument, as the sequence of its (source, table) items
    idx,            \* position of the `for source, df in fda_data.items()` loop
    profile,        \* the DeviceProfile under construction
    appended,       \* history: the timeline as appended, before the final sort
    pc,             \* "idle" | "loop" | "sort" | "done" | "summarised" | "raised"
    summary,        \* the dict generate_regulatory_summary returns, or NoSummary
    \* ---- get_comprehensive_data
    r_query, r_source, max_records,
    search_queries, \* result of _build_comprehensive_search
    qi,             \* position of the `for search_query in search_queries` loop
    skip,
    all_results,    \* the pages extended into all_results, in order
    inflight,       \* the request handed to _make_request, or NoRequest
    calls,          \* history: requests issued so far, in order
    rpc,            \* "idle" | "start" | "page" | "wait" | "done" | "raised"
    built,          \* history: calls of _build_comprehensive_search made so far
    \* ---- _build_comprehensive_search called on its own
    b_query, b_source, b_result, bpc,
    \* ---- _make_request called by several threads on one retriever
    thread,         \* per caller: its position in _make_request
    requests,       \* history: per caller, the requests it has sent
    \* ---- filter_by_date called twice on a table
    f_df,           \* the caller's DataFrame
    f_source, f_months,
    f_now,          \* the reading of datetime.now()
    f_results,      \* history: per call, its cutoff and the table it returned
    fpc,            \* "idle" | "call" | "again" | "later" | "done"
    \* ---- process_results
    n_data,         \* the decoded response
    n_source,
    n_df,           \* the DataFrame under construction
    npc,            \* "idle" | "call" | "flat" | "columns" | "done" | "raised"
    \* ---- get_cross_referenced_data
    x_years,        \* lookback_years
    x_source,       \* position of the `for source in source_priority` loop
    x_results,      \* the results dict, in insertion order
    x_attempts,     \* history: the get_comprehensive_data calls and what they got
    xpc             \* "idle" | "loop" | "done"

aggVars  == <<fda_data, idx, profile, appended, pc, summary>>
retVars  == <<r_query, r_source, max_records, search_queries, qi, skip,
              all_results, inflight, calls, rpc, built>>
qbVars   == <<b_query, b_source, b_result, bpc>>
callVars == <<thread, requests>>
filtVars == <<f_df, f_source, f_months, f_now, f_results, fpc>>
normVars == <<n_data, n_source, n_df, npc>>
crossVars == <<x_years, x_source, x_results, x_attempts, xpc>>
extVars  == <<callVars, filtVars, normVars, crossVars>>
vars     == <<aggVars, retVars, qbVars, extVars>>

(***************************************************************************)
(* Text                                                                    *)
(***************************************************************************)
Min(a, b) == IF a < b THEN a ELSE b

\* s[:n]
Take(s, n) == SubSeq(s, 1, Min(n, Len(s)))

\* needle in hay
Contains(needle, hay) ==
    \E i \in 0..(Len(hay) - Len(needle)) :
        SubSeq(hay, i + 1, i + Len(needle)) = needle

RECURSIVE Join(_, _)
\* sep.join(parts)
Join(sep, parts) ==
    IF parts = <<>> THEN <<>>
    ELSE IF Len(parts) = 1 THEN parts[1]
    ELSE parts[1] \o sep \o Join(sep, Tail(parts))

Digits == <<"0", "1", "2", "3", "4", "5", "6", "7", "8", "9">>

RECURSIVE NatStr(_)
\* str(n) for a non-negative int
NatStr(n) == IF n < 10 THEN <<Digits[n + 1]>> ELSE NatStr(n \div 10) \o <<Digits[(n % 10) + 1]>>

sNone         == <<"N", "o", "n", "e">>
sNan          == <<"n", "a", "n">>
sI            == <<"I">>
sII           == <<"I", "I">>
sIII          == <<"I", "I", "I">>
s3            == <<"3">>
sY            == <<"Y">>
sN            == <<"N">>
sClass        == <<"C", "l", "a", "s", "s", " ">>
sClassI       == sClass \o sI
sClassII      == sClass \o sII
sClassIII     == sClass \o sIII
sUnknown      == <<"U", "n", "k", "n", "o", "w", "n">>
sUnspecified  == <<"U", "n", "s", "p", "e", "c", "i", "f", "i", "e", "d">>
sDevice       == <<"D", "e", "v", "i", "c", "e">>
sAdverseEvent == <<"A", "d", "v", "e", "r", "s", "e", " ", "e", "v", "e", "n", "t">>
sEllipsis     == <<".", ".", ".">>
sBy           == <<" ", "b", "y", " ">>
sCommaSpace   == <<",", " ">>
s510kPrefix   == <<"5", "1", "0", "K", " ", "C", "l", "e", "a", "r", "a", "n", "c", "e", ":", " ">>
sPmaPrefix    == <<"P", "M", "A", " ", "A", "p", "p", "r", "o", "v", "a", "l", ":", " ">>
sRecallMid    == <<" ", "R", "e", "c", "a", "l", "l", ":", " ">>
sEventPrefix  == <<"A", "d", "v", "e", "r", "s", "e", " ", "E", "v", "e", "n", "t", ":", " ">>
sAcme         == <<"A", "c", "m", "e", " ", "C", "o", "r", "p">>
sBeta         == <<"B", "e", "t", "a">>
sLZG          == <<"L", "Z", "G">>
sFRN          == <<"F", "R", "N">>
sPump         == <<"P", "u", "m", "p">>
sLeak         == <<"L", "e", "a", "k">>
sBreak        == <<"B", "r", "e", "a", "k">>

\* The slice length of the timeline descriptions, reason[:50] and str(problem)[:50].
DescSlice == 50

(***************************************************************************)
(* DataFrame cells                                                         *)
(*   absent : the table has no such column (row.get returns its default)   *)
(*   none, nan : the missing values, for which pd.notna is False           *)
(*   str    : a Python str                                                 *)
(*   list   : a Python list of str                                         *)
(*   num    : a non-negative int                                           *)
(*   ts     : a value pd.to_datetime turns into the instant n (a Timestamp *)
(*            or a parseable date string), n counted in days               *)
(*   bad    : a non-null value pd.to_datetime cannot parse                 *)
(***************************************************************************)
Cell(t, s, l, n) == [t |-> t, s |-> s, l |-> l, n |-> n]
Absent  == Cell("absent", <<>>, <<>>, 0)
NoneV   == Cell("none", <<>>, <<>>, 0)
NaN     == Cell("nan", <<>>, <<>>, 0)
Str(s)  == Cell("str", s, <<>>, 0)
List(l) == Cell("list", <<>>, l, 0)
Num(n)  == Cell("num", <<>>, <<>>, n)
Ts(n)   == Cell("ts", <<>>, <<>>, n)
BadDate == Cell("bad", <<>>, <<>>, 0)

\* row.get(field): None when the column is absent
Get(c) == IF c.t = "absent" THEN NoneV ELSE c

\* row.get(field, default)
GetOr(c, default) == IF c.t = "absent" THEN default ELSE c

\* pd.notna(row.get(field)) on a scalar cell
NotNa(c) == c.t \notin {"absent", "none", "nan"}

\* str(value), which an f-string applies too
PyStr(c) ==
    CASE c.t = "str"  -> c.s
      [] c.t = "none" -> sNone
      [] c.t = "nan"  -> sNan
      [] c.t = "num"  -> NatStr(c.n)

\* bool(value)
Truthy(c) ==
    CASE c.t = "str"  -> c.s # <<>>
      [] c.t = "list" -> c.l # <<>>
      [] c.t = "num"  -> c.n # 0
      [] c.t = "none" -> FALSE
      [] c.t \in {"dict", "dicts"} -> c.l # <<>>
      [] OTHER        -> TRUE

(***************************************************************************)
(* DeviceProfile and the rows of the source tables.  A row carries the     *)
(* columns the mapper reads.                                               *)
(***************************************************************************)
Row510k(applicant, product_code, decision_date, device_name) ==
    [applicant |-> applicant, product_code |-> product_code,
     decision_date |-> decision_date, device_name |-> device_name]

RowPma(applicant, product_code, decision_date, trade_name) ==
    [applicant |-> applicant, product_code |-> product_code,
     decision_date |-> decision_date, trade_name |-> trade_name]

RowRecall(recalling_firm, recall_classification, reason_for_recall, event_date_initiated) ==
    [recalling_firm |-> recalling_firm, recall_classification |-> recall_classification,
     reason_for_recall |-> reason_for_recall, event_date_initiated |-> event_date_initiated]

RowEvent(manufacturer_name, product_problems, adverse_event_flag, date_received) ==
    [manufacturer_name |-> manufacturer_name, product_problems |-> product_problems,
     adverse_event_flag |-> adverse_event_flag, date_received |-> date_received]

RowClassification(product_code, device_class) ==
    [product_code |-> product_code, device_class |-> device_class]

EmptyProfile ==
    [manufacturers |-> {}, product_codes |-> {},
     clearances |-> <<>>, approvals |-> <<>>, recalls |-> <<>>,
     adverse_events |-> <<>>, classifications |-> <<>>,
     risk_score |-> 0, timeline |-> <<>>]

TimelineEntry(date, kind, description) ==
    [date |-> date, kind |-> kind, description |-> description]

\* The outcome of a step that may raise: the profile, or ok = FALSE.
Ok(p)     == [ok |-> TRUE, p |-> p]
Raised(p) == [ok |-> FALSE, p |-> p]

\* pd.to_datetime(value) of a non-null value succeeds exactly on a "ts" cell.
Parseable(c) == c.t = "ts"

(***************************************************************************)
(* _process_510k_data, one row                                             *)
(***************************************************************************)
Process510kRow(row, p) ==
    LET p1 == [p EXCEPT
                 !.manufacturers = IF NotNa(row.applicant) THEN @ \cup {row.applicant} ELSE @,
                 !.product_codes = IF NotNa(row.product_code) THEN @ \cup {row.product_code} ELSE @,
                 !.clearances = Append(@, [device_name |-> Get(row.device_name),
                                           decision_date |-> Get(row.decision_date),
                                           applicant |-> Get(row.applicant),
                                           product_code |-> Get(row.product_code)])]
        description == s510kPrefix \o PyStr(GetOr(row.device_name, Str(sDevice)))
                          \o sBy \o PyStr(GetOr(row.applicant, Str(sUnknown)))
    IN  IF ~NotNa(row.decision_date) THEN Ok(p1)
        ELSE IF ~Parseable(row.decision_date) THEN Raised(p1)
        ELSE Ok([p1 EXCEPT !.timeline =
                    Append(@, TimelineEntry(row.decision_date.n, "510K_CLEARANCE", description))])

(***************************************************************************)
(* _process_pma_data, one row                                              *)
(***************************************************************************)
ProcessPmaRow(row, p) ==
    LET p1 == [p EXCEPT
                 !.manufacturers = IF NotNa(row.applicant) THEN @ \cup {row.applicant} ELSE @,
                 !.product_codes = IF NotNa(row.product_code) THEN @ \cup {row.product_code} ELSE @,
                 !.approvals = Append(@, [trade_name |-> Get(row.trade_name),
                                          decision_date |-> Get(row.decision_date),
                                          applicant |-> Get(row.applicant)])]
        description == sPmaPrefix \o PyStr(GetOr(row.trade_name, Str(sDevice)))
                          \o sBy \o PyStr(GetOr(row.applicant, Str(sUnknown)))
    IN  IF ~NotNa(row.decision_date) THEN Ok(p1)
        ELSE IF ~Parseable(row.decision_date) THEN Raised(p1)
        ELSE Ok([p1 EXCEPT !.timeline =
                    Append(@, TimelineEntry(row.decision_date.n, "PMA_APPROVAL", description))])

(***************************************************************************)
(* _process_recall_data, one row.  reason[:50] raises TypeError unless     *)
(* reason is a str.                                                        *)
(***************************************************************************)
ProcessRecallRow(row, p) ==
    LET p1 == [p EXCEPT
                 !.manufacturers = IF NotNa(row.recalling_firm) THEN @ \cup {row.recalling_firm} ELSE @,
                 !.recalls = Append(@, [event_date |-> Get(row.event_date_initiated),
                                        recalling_firm |-> Get(row.recalling_firm),
                                        recall_classification |-> Get(row.recall_classification),
                                        reason_for_recall |-> Get(row.reason_for_recall)])]
        classification == GetOr(row.recall_classification, Str(sUnknown))
        reason == GetOr(row.reason_for_recall, Str(sUnspecified))
        description == sClass \o PyStr(classification) \o sRecallMid
                          \o Take(reason.s, DescSlice) \o sEllipsis
    IN  IF ~NotNa(row.event_date_initiated) THEN Ok(p1)
        ELSE IF ~Parseable(row.event_date_initiated) THEN Raised(p1)
        ELSE IF reason.t # "str" THEN Raised(p1)
        ELSE Ok([p1 EXCEPT !.timeline =
                    Append(@, TimelineEntry(row.event_date_initiated.n, "RECALL", description))])

(***************************************************************************)
(* _process_event_data, one row.                                           *)
(* pd.isna(problem) of a list is an array: `if` on it raises ValueError    *)
(* for two or more items (caught: the placeholder), is False for no item   *)
(* (or raises, caught: either way the placeholder results) and is the      *)
(* item's own missing-ness for one item.                                   *)
(***************************************************************************)
\* Mutant: the pd.isna test left out, so that a missing value reaches the
\* `str(problem) if problem else ...` branch.
ProblemTextNoIsna(problem) ==
    CASE problem.t = "list" ->
            IF problem.l = <<>> THEN sAdverseEvent ELSE Join(sCommaSpace, problem.l)
      [] problem.t = "str" -> problem.s
      [] OTHER -> IF Truthy(problem) THEN PyStr(problem) ELSE sAdverseEvent

ProblemText(problem) ==
    CASE problem.t \in {"none", "nan"} -> sAdverseEvent
      [] problem.t = "list" ->
            IF Len(problem.l) >= 2 THEN sAdverseEvent
            ELSE IF problem.l = <<>> THEN sAdverseEvent
            ELSE Join(sCommaSpace, problem.l)
      [] problem.t = "str" -> problem.s
      [] OTHER -> IF Truthy(problem) THEN PyStr(problem) ELSE sAdverseEvent

ProcessEventRow(row, p) ==
    LET p1 == [p EXCEPT
                 !.manufacturers = IF NotNa(row.manufacturer_name) THEN @ \cup {row.manufacturer_name} ELSE @,
                 !.adverse_events = Append(@, [date_received |-> Get(row.date_received),
                                               manufacturer_name |-> Get(row.manufacturer_name),
                                               product_problems |-> Get(row.product_problems),
                                               adverse_event_flag |-> Get(row.adverse_event_flag)])]
        problem == GetOr(row.product_problems, Str(sAdverseEvent))
        description == sEventPrefix \o Take(ProblemText(problem), DescSlice) \o sEllipsis
    IN  IF ~NotNa(row.date_received) THEN Ok(p1)
        ELSE IF ~Parseable(row.date_received) THEN Raised(p1)
        ELSE Ok([p1 EXCEPT !.timeline =
                    Append(@, TimelineEntry(row.date_received.n, "ADVERSE_EVENT", description))])

(***************************************************************************)
(* _process_classification_data, one row                                   *)
(***************************************************************************)
\* Mutant: product_codes assigned instead of added to.
ProcessClassificationRowOverwrite(row, p) ==
    Ok([p EXCEPT
          !.product_codes = IF NotNa(row.product_code) THEN {row.product_code} ELSE @,
          !.classifications = Append(@, [device_class |-> Get(row.device_class),
                                         product_code |-> Get(row.product_code)])])

\* Mutant: a row without product code is left out of the profile.
ProcessClassificationRowIfCoded(row, p) ==
    IF ~NotNa(row.product_code) THEN Ok(p)
    ELSE Ok([p EXCEPT
               !.product_codes = @ \cup {row.product_code},
               !.classifications = Append(@, [device_class |-> Get(row.device_class),
                                              product_code |-> Get(row.product_code)])])

ProcessClassificationRow(row, p) ==
    Ok([p EXCEPT
          !.product_codes = IF NotNa(row.product_code) THEN @ \cup {row.product_code} ELSE @,
          !.classifications = Append(@, [device_class |-> Get(row.device_class),
                                         product_code |-> Get(row.product_code)])])

\* The row step of each source the dispatch of create_comprehensive_profile knows.
ProcessRow(source, row, p) ==
    CASE source = "510K"           -> Process510kRow(row, p)
      [] source = "PMA"            -> ProcessPmaRow(row, p)
      [] source = "RECALL"         -> ProcessRecallRow(row, p)
      [] source = "EVENT"          -> ProcessEventRow(row, p)
      [] source = "CLASSIFICATION" -> ProcessClassificationRow(row, p)

RECURSIVE ProcessRows(_, _, _)
\* `for _, row in df.iterrows()`: the rows in order, stopping at the first raise
ProcessRows(source, rows, st) ==
    IF rows = <<>> \/ ~st.ok THEN st
    ELSE ProcessRows(source, Tail(rows), ProcessRow(source, Head(rows), st.p))

(***************************************************************************)
(* _calculate_risk_score                                                   *)
(***************************************************************************)
ClassIPenalty   == 30
ClassIIPenalty  == 15
ClassIIIPenalty == 5
EventPenalty    == 2
HighRiskBonus   == 10
MaxScore        == 100

\* One recall's penalty: the if / elif / elif chain on str(classification).
RecallPenalty(classification) ==
    LET text == PyStr(classification)
    IN  IF Contains(sI, text) THEN ClassIPenalty
        ELSE IF Contains(sII, text) THEN ClassIIPenalty
        ELSE IF Contains(sIII, text) THEN ClassIIIPenalty
        ELSE 0

RECURSIVE RecallPenalties(_)
RecallPenalties(recalls) ==
    IF recalls = <<>> THEN 0
    ELSE RecallPenalty(Head(recalls).recall_classification) + RecallPenalties(Tail(recalls))

\* event.get("adverse_event_flag") == "Y"
IsSerious(event) == event.adverse_event_flag = Str(sY)

RECURSIVE SeriousEvents(_)
SeriousEvents(events) ==
    IF events = <<>> THEN 0
    ELSE (IF IsSerious(Head(events)) THEN 1 ELSE 0) + SeriousEvents(Tail(events))

\* classification.get("device_class") in ["III", "3"]
IsHighRiskClass(classification) == classification.device_class \in {Str(sIII), Str(s3)}

\* Mutant: the break left out, the bonus added for each high-risk record.
ClassBonusPerRecord(classifications) ==
    Len(SelectSeq(classifications, IsHighRiskClass)) * HighRiskBonus

ClassBonus(classifications) ==
    IF \E i \in 1..Len(classifications) : IsHighRiskClass(classifications[i])
    THEN HighRiskBonus ELSE 0

RawScore(p) ==
    RecallPenalties(p.recalls) + SeriousEvents(p.adverse_events) * EventPenalty
        + ClassBonus(p.classifications)

\* Mutant: the final min(score, 100.0) left out.
CalculateRiskScoreUnclamped(p) == RawScore(p)

CalculateRiskScore(p) == Min(RawScore(p), MaxScore)

(***************************************************************************)
(* profile.timeline.sort(key=lambda x: x[0] if x[0] else datetime.min)     *)
(* list.sort is stable.  Every appended date is a Timestamp, which is      *)
(* truthy, so the key is the date.                                         *)
(***************************************************************************)
SortKey(e) == e.date

\* Mutant: x placed before the entries of equal key, as an unstable sort may.
InsertBeforeTies(s, x) ==
    LET k == Cardinality({i \in 1..Len(s) : SortKey(s[i]) < SortKey(x)})
    IN  SubSeq(s, 1, k) \o <<x>> \o SubSeq(s, k + 1, Len(s))

\* x placed after every entry whose key is not greater (s is sorted)
InsertStable(s, x) ==
    LET k == Cardinality({i \in 1..Len(s) : SortKey(s[i]) <= SortKey(x)})
    IN  SubSeq(s, 1, k) \o <<x>> \o SubSeq(s, k + 1, Len(s))

RECURSIVE SortFrom(_, _)
SortFrom(done, rest) ==
    IF rest = <<>> THEN done ELSE SortFrom(InsertStable(done, Head(rest)), Tail(rest))

\* Mutant: the timeline left in insertion order.
SortTimelineSkipped(timeline) == timeline

SortTimeline(timeline) == SortFrom(<<>>, timeline)

(***************************************************************************)
(* create_comprehensive_profile, step by step                              *)
(***************************************************************************)
KnownSources == {"510K", "PMA", "RECALL", "EVENT", "CLASSIFICATION"}

Current == fda_data[idx]

InLoop == pc = "loop" /\ idx <= Len(fda_data)

\* The body of one iteration of the `for source, df` loop: the _process_*
\* method of `source` over the rows of the current table.
ApplyTable(source) ==
    LET st == ProcessRows(source, Current.rows, Ok(profile))
    IN  /\ profile' = st.p
        /\ idx' = IF st.ok THEN idx + 1 ELSE idx
        /\ pc' = IF st.ok THEN pc ELSE "raised"
        /\ UNCHANGED <<fda_data, appended, summary, retVars, qbVars, extVars>>

Process510k ==
    /\ InLoop
    /\ Current.rows # <<>>
    /\ Current.source = "510K"
    /\ ApplyTable("510K")

ProcessPma ==
    /\ InLoop
    /\ Current.rows # <<>>
    /\ Current.source = "PMA"
    /\ ApplyTable("PMA")

ProcessRecall ==
    /\ InLoop
    /\ Current.rows # <<>>
    /\ Current.source = "RECALL"
    /\ ApplyTable("RECALL")

ProcessEvent ==
    /\ InLoop
    /\ Current.rows # <<>>
    /\ Current.source = "EVENT"
    /\ ApplyTable("EVENT")

ProcessClassification ==
    /\ InLoop
    /\ Current.rows # <<>>
    /\ Current.source = "CLASSIFICATION"
    /\ ApplyTable("CLASSIFICATION")

\* `if df.empty: continue`, and a key no branch of the dispatch matches
SkipSource ==
    /\ InLoop
    /\ Current.rows = <<>> \/ Current.source \notin KnownSources
    /\ idx' = idx + 1
    /\ UNCHANGED <<fda_data, profile, appended, pc, summary, retVars, qbVars, extVars>>

\* profile.risk_score = self._calculate_risk_score(profile)
ScoreProfile ==
    /\ pc = "loop"
    /\ idx > Len(fda_data)
    /\ profile' = [profile EXCEPT !.risk_score = CalculateRiskScore(profile)]
    /\ appended' = profile.timeline
    /\ pc' = "sort"
    /\ UNCHANGED <<fda_data, idx, summary, retVars, qbVars, extVars>>

\* profile.timeline.sort(...); return profile
SortAndReturn ==
    /\ pc = "sort"
    /\ profile' = [profile EXCEPT !.timeline = SortTimeline(@)]
    /\ pc' = "done"
    /\ UNCHANGED <<fda_data, idx, appended, summary, retVars, qbVars, extVars>>

(***************************************************************************)
(* generate_regulatory_summary: the safety_signals of a returned profile   *)
(***************************************************************************)
\* len([r for r in profile.recalls if "I" in str(r.get("recall_classification", ""))])
Class1Recalls(recalls) ==
    Len(SelectSeq(recalls, LAMBDA r : Contains(sI, PyStr(r.recall_classification))))

\* len([e for e in profile.adverse_events if e.get("adverse_event_flag") == "Y"])
SeriousAdverseEvents(events) ==
    Len(SelectSeq(events, LAMBDA e : e.adverse_event_flag = Str(sY)))

GenerateRegulatorySummary(p) ==
    [class_1_recalls |-> Class1Recalls(p.recalls),
     serious_adverse_events |-> SeriousAdverseEvents(p.adverse_events)]

GenerateSummary ==
    /\ pc = "done"
    /\ summary' = GenerateRegulatorySummary(profile)
    /\ pc' = "summarised"
    /\ UNCHANGED <<fda_data, idx, profile, appended, retVars, qbVars, extVars>>

(***************************************************************************)
(* Inputs of create_comprehensive_profile                                  *)
(***************************************************************************)
\* Size of a mixed input: its rows plus its empty tables.
MaxRows == 3
\* Rows of the recall table of a high-volume input.
MaxRecalls == 10

\* Instants of the input dates, in days of 2024 (a leap year).
MonthDays == <<31, 29, 31, 30, 31, 30, 31, 31, 30, 31, 30, 31>>

RECURSIVE DayOf2024(_, _)
DayOf2024(month, day) ==
    IF month = 1 THEN day ELSE MonthDays[month - 1] + DayOf2024(month - 1, day)

Jan10 == DayOf2024(1, 10)
Feb15 == DayOf2024(2, 15)
Mar01 == DayOf2024(3, 1)

Rows510k ==
    << Row510k(Str(sAcme), Str(sLZG), Ts(Jan10), Absent),
      Row510k(Str(sBeta), Str(sFRN), Ts(Feb15), Str(sPump)),
      Row510k(NaN, NaN, NaN, Str(sPump)) >>

RowsPma ==
    << RowPma(Str(sBeta), Str(sFRN), Ts(Jan10), Str(sPump)),
      RowPma(Str(sAcme), NoneV, NaN, Absent) >>

RowsRecall ==
    << RowRecall(Str(sAcme), Str(sClassII), Absent, Ts(Mar01)),
      RowRecall(Str(sAcme), Str(sClassI), Str(sLeak), Ts(Feb15)),
      RowRecall(Str(sBeta), Str(sClassIII), Str(sLeak), Ts(Jan10)),
      RowRecall(Str(sBeta), Str(sII), Str(sLeak), NaN),
      RowRecall(NaN, NaN, NaN, Ts(Mar01)) >>

RowsEvent ==
    << RowEvent(Str(sAcme), Absent, Str(sY), Ts(Feb15)),
      RowEvent(Str(sBeta), NoneV, Str(sN), Ts(Jan10)),
      RowEvent(Str(sBeta), List(<<sLeak, sBreak>>), Str(sY), NaN),
      RowEvent(NaN, Str(sLeak), NaN, BadDate) >>

RowsClassification ==
    << RowClassification(Str(sLZG), Str(sIII)),
      RowClassification(Str(sFRN), Str(s3)),
      RowClassification(NaN, Num(3)) >>

RowsUdi == << [brand_name |-> Str(sPump)] >>

Sources == KnownSources \cup {"UDI"}

RowsOf(source) ==
    CASE source = "510K"           -> Rows510k
      [] source = "PMA"            -> RowsPma
      [] source = "RECALL"         -> RowsRecall
      [] source = "EVENT"          -> RowsEvent
      [] source = "CLASSIFICATION" -> RowsClassification
      [] source = "UDI"            -> RowsUdi

Item(source, rows) == [source |-> source, rows |-> rows]

\* What a table of k rows takes of the size of an input.
Cost(k) == IF k = 0 THEN 1 ELSE k

RECURSIVE Shapes(_, _)
\* The keys and table lengths of the dicts over distinct keys of `sources` of
\* size at most `budget`, in insertion order (the order a dict iterates in).
Shapes(sources, budget) ==
    {<<>>} \cup
    UNION { UNION { { <<[source |-> src, n |-> k]>> \o rest :
                        rest \in Shapes(sources \ {src}, budget - Cost(k)) } :
                    k \in {j \in 0..budget : Cost(j) <= budget} } :
            src \in sources }

RECURSIVE RowsBefore(_, _)
RowsBefore(shape, i) == IF i = 1 THEN 0 ELSE RowsBefore(shape, i - 1) + shape[i - 1].n

\* The input of `shape` whose rows are those `pick` names, table after table.
InputOf(shape, pick) ==
    [i \in 1..Len(shape) |->
        Item(shape[i].source,
             [j \in 1..shape[i].n |-> RowsOf(shape[i].source)[pick[RowsBefore(shape, i) + j]]])]

PickFits(shape, pick) ==
    \A i \in 1..Len(shape) : \A j \in 1..shape[i].n :
        pick[RowsBefore(shape, i) + j] <= Len(RowsOf(shape[i].source))

MostRows == CHOOSE m \in 1..20 : \A src \in Sources : Len(RowsOf(src)) <= m
                                  /\ \E src2 \in Sources : Len(RowsOf(src2)) = m

MixedShapes == Shapes(Sources, MaxRows)

\* fda_data is a mixed input
IsMixedInput(d) ==
    \E shape \in MixedShapes :
        \E pick \in [1..RowsBefore(shape, Len(shape) + 1) -> 1..MostRows] :
            /\ PickFits(shape, pick)
            /\ d = InputOf(shape, pick)

\* The tables of at most n rows drawn from the set `rows`.
TablesUpTo(rows, n) == UNION {[1..k -> rows] : k \in 0..n}

\* One dated adverse event of every shape of product_problems.
ShapeEventRows ==
    { RowEvent(Str(sAcme), problem, Str(sN), Ts(Feb15)) :
        problem \in { Absent, NoneV, NaN, Str(sLeak), Str(<<>>), List(<<>>),
                      List(<<sLeak>>), List(<<sLeak, sBreak>>), Num(0), Num(7) } }

ShapeInputs == { <<Item("EVENT", <<row>>)>> : row \in ShapeEventRows }

\* A recall table of up to MaxRecalls rows.
VolumeRecallRows ==
    { RowRecall(Str(sAcme), Str(sClassI), Str(sLeak), Ts(Feb15)),
      RowRecall(Str(sBeta), NaN, Str(sLeak), Ts(Jan10)) }

VolumeInputs ==
    { <<Item("RECALL", t)>> : t \in TablesUpTo(VolumeRecallRows, MaxRecalls) }

\* One record of each dated source for every shape of its date field.
DateShapes == {Absent, NoneV, NaN, BadDate, Ts(Feb15)}

DateShapeInputs ==
    { <<Item("510K", <<Row510k(Str(sAcme), Str(sLZG), d, Str(sPump))>>)>> : d \in DateShapes }
    \cup { <<Item("PMA", <<RowPma(Str(sAcme), Str(sLZG), d, Str(sPump))>>)>> : d \in DateShapes }
    \cup { <<Item("RECALL", <<RowRecall(Str(sAcme), Str(sClassI), Str(sLeak), d)>>)>> : d \in DateShapes }
    \cup { <<Item("EVENT", <<RowEvent(Str(sAcme), Str(sLeak), Str(sY), d)>>)>> : d \in DateShapes }

(***************************************************************************)
(* The specification of create_comprehensive_profile                       *)
(***************************************************************************)
NoRequest == [q |-> 0, limit |-> 0, skip |-> 0, sort |-> ""]

NoSummary == [class_1_recalls |-> 0, serious_adverse_events |-> 0]

AggIdle ==
    /\ fda_data = <<>> /\ idx = 0 /\ profile = EmptyProfile
    /\ appended = <<>> /\ pc = "idle" /\ summary = NoSummary

RetIdle ==
    /\ r_query = <<>> /\ r_source = "" /\ max_records = 0
    /\ search_queries = <<>> /\ qi = 0 /\ skip = 0
    /\ all_results = <<>> /\ inflight = NoRequest /\ calls = <<>> /\ rpc = "idle"
    /\ built = 0

QbIdle == b_query = <<>> /\ b_source = "" /\ b_result = <<>> /\ bpc = "idle"

CallIdle == thread = <<>> /\ requests = <<>>

FiltIdle ==
    /\ f_df = <<>> /\ f_source = "" /\ f_months = 0 /\ f_now = 0
    /\ f_results = <<>> /\ fpc = "idle"

NormIdle == n_data = <<>> /\ n_source = "" /\ n_df = <<>> /\ npc = "idle"

CrossIdle ==
    /\ x_years = 0 /\ x_source = 0 /\ x_results = <<>> /\ x_attempts = <<>>
    /\ xpc = "idle"

ExtIdle == CallIdle /\ FiltIdle /\ NormIdle /\ CrossIdle

Init ==
    /\ \/ IsMixedInput(fda_data)
       \/ fda_data \in ShapeInputs
       \/ fda_data \in VolumeInputs
       \/ fda_data \in DateShapeInputs
    /\ idx = 1
    /\ profile = EmptyProfile
    /\ appended = <<>>
    /\ pc = "loop"
    /\ summary = NoSummary
    /\ RetIdle
    /\ QbIdle
    /\ ExtIdle

Next ==
    \/ Process510k
    \/ ProcessPma
    \/ ProcessRecall
    \/ ProcessEvent
    \/ ProcessClassification
    \/ SkipSource
    \/ ScoreProfile
    \/ SortAndReturn
    \/ GenerateSummary

Spec == Init /\ [][Next]_vars

(***************************************************************************)
(* create_comprehensive_profile as a function of its input                 *)
(***************************************************************************)
RECURSIVE ProcessItems(_, _)
\* The `for source, df` loop over the items of d, from the outcome st.
ProcessItems(d, st) ==
    IF d = <<>> \/ ~st.ok THEN st
    ELSE IF Head(d).rows = <<>> \/ Head(d).source \notin KnownSources
         THEN ProcessItems(Tail(d), st)
         ELSE ProcessItems(Tail(d), ProcessRows(Head(d).source, Head(d).rows, st))

BuildProfile(d) ==
    LET st == ProcessItems(d, Ok(EmptyProfile))
    IN  IF ~st.ok THEN st
        ELSE Ok([st.p EXCEPT !.risk_score = CalculateRiskScore(st.p),
                             !.timeline = SortTimeline(@)])

\* The orders in which the items of d can be inserted into the dict.
Reorderings(d) ==
    { [i \in 1..Len(d) |-> d[f[i]]] :
        f \in {g \in [1..Len(d) -> 1..Len(d)] : \A a, b \in 1..Len(d) : a # b => g[a] # g[b]} }

\* The profile without its timeline.
Linked(p) ==
    [manufacturers |-> p.manufacturers, product_codes |-> p.product_codes,
     clearances |-> p.clearances, approvals |-> p.approvals, recalls |-> p.recalls,
     adverse_events |-> p.adverse_events, classifications |-> p.classifications,
     risk_score |-> p.risk_score]

Returned == pc \in {"done", "summarised"}

\* The timeline in insertion order.
Unsorted == IF pc \in {"sort", "done", "summarised"} THEN appended ELSE profile.timeline

IsAscending(timeline) ==
    \A i, j \in 1..Len(timeline) : i < j => timeline[i].date <= timeline[j].date

(***************************************************************************)
(* Properties of create_comprehensive_profile                              *)
(***************************************************************************)
\* The penalty the most specific numeral of the classification text gives.
MostSpecificPenalty(classification) ==
    LET text == PyStr(classification)
    IN  IF Contains(sIII, text) THEN ClassIIIPenalty
        ELSE IF Contains(sII, text) THEN ClassIIPenalty
        ELSE IF Contains(sI, text) THEN ClassIPenalty
        ELSE 0

RECURSIVE MostSpecificPenalties(_)
MostSpecificPenalties(recalls) ==
    IF recalls = <<>> THEN 0
    ELSE MostSpecificPenalty(Head(recalls).recall_classification)
            + MostSpecificPenalties(Tail(recalls))

\* C1: in the returned risk score every recall counts by the most specific
\* numeral of its classification text: "III" 5, "II" without "III" 15, and
\* only "I" without "II" 30.
C1_MostSpecificFirst ==
    Returned =>
        profile.risk_score =
            Min(MostSpecificPenalties(profile.recalls)
                    + SeriousEvents(profile.adverse_events) * EventPenalty
                    + ClassBonus(profile.classifications),
                MaxScore)

IsClassI(recall) ==
    LET text == PyStr(recall.recall_classification)
    IN  Contains(sI, text) /\ ~Contains(sII, text)

TenClassIRecalls ==
    /\ Len(profile.recalls) = 10
    /\ \A i \in 1..Len(profile.recalls) : IsClassI(profile.recalls[i])

\* C2: the stored risk score lies in [0, 100] whatever the input, it is 100
\* whenever the raw score reaches 100, and ten Class I recalls (raw score
\* 300) give exactly 100.
C2_ScoreBounded ==
    /\ profile.risk_score >= 0
    /\ profile.risk_score <= 100
    /\ Returned /\ RawScore(profile) >= 100 => profile.risk_score = 100
    /\ Returned /\ TenClassIRecalls => RawScore(profile) >= 300 /\ profile.risk_score = 100

C2_TenClassIRecallsClamped ==
    /\ Returned
    /\ TenClassIRecalls
    /\ RawScore(profile) = 300
    /\ profile.risk_score = 100

\* The tables of the end-to-end scenario.
ScenarioClearance == Item("510K", <<Row510k(Str(sAcme), Str(sLZG), Ts(Jan10), Absent)>>)
ScenarioRecall == Item("RECALL", <<RowRecall(Str(sAcme), Str(sClassII), Absent, Ts(Mar01))>>)
ScenarioEvent == Item("EVENT", <<RowEvent(Str(sAcme), Absent, Str(sY), Ts(Feb15))>>)

IsScenario ==
    /\ Len(fda_data) = 3
    /\ {fda_data[i] : i \in 1..3} = {ScenarioClearance, ScenarioRecall, ScenarioEvent}

ScenarioLinksAndTimeline ==
    /\ profile.manufacturers = {Str(sAcme)}
    /\ profile.product_codes = {Str(sLZG)}
    /\ Len(profile.timeline) = 3
    /\ [i \in 1..3 |-> profile.timeline[i].date] = <<Jan10, Feb15, Mar01>>
    /\ [i \in 1..3 |-> profile.timeline[i].kind] = <<"510K_CLEARANCE", "ADVERSE_EVENT", "RECALL">>

\* C3: the end-to-end scenario (a clearance of 2024-01-10, a Class II recall
\* of 2024-03-01, a flagged adverse event of 2024-02-15, all of Acme Corp)
\* returns manufacturers {Acme Corp}, product codes {LZG}, risk score 17 and
\* the timeline clearance, adverse event, recall.
C3_EndToEndScenario ==
    Returned /\ IsScenario => ScenarioLinksAndTimeline /\ profile.risk_score = 17

\* What the code returns for the scenario: everything as stated but the score.
C3_ScenarioAsBuilt ==
    Returned /\ IsScenario => ScenarioLinksAndTimeline /\ profile.risk_score = 32

EntriesAt(timeline, date) == SelectSeq(timeline, LAMBDA e : e.date = date)

C6_OrderIndependent ==
    Returned =>
        \A d \in Reorderings(fda_data) :
            /\ BuildProfile(d).ok
            /\ Linked(BuildProfile(d).p) = Linked(profile)

C6_SeveralTablesLinked ==
    /\ Returned
    /\ Cardinality({i \in 1..Len(fda_data) :
                      fda_data[i].source \in KnownSources /\ fda_data[i].rows # <<>>}) >= 3
    /\ Cardinality(profile.product_codes) >= 2
    /\ Cardinality(profile.manufacturers) >= 2

IsNull(c) == c.t \in {"none", "nan"}

DatedRows(rows) == SelectSeq(rows, LAMBDA row : row.date_received.t = "ts")

EventEntries(timeline) == SelectSeq(timeline, LAMBDA e : e.kind = "ADVERSE_EVENT")

\* The event table at position i has been processed.
EventsProcessed(i) ==
    /\ fda_data[i].source = "EVENT"
    /\ fda_data[i].rows # <<>>
    /\ i < idx

\* C7: an adverse event with a received date and a null product_problems
\* does not raise, and its timeline description holds the placeholder
\* "Adverse event" and neither "None" nor "nan".
C7_NullProblemPlaceholder ==
    \A i \in 1..Len(fda_data) :
        /\ EventsProcessed(i) =>
              LET dated == DatedRows(fda_data[i].rows)
                  entries == EventEntries(Unsorted)
              IN  /\ Len(entries) = Len(dated)
                  /\ \A k \in 1..Len(dated) :
                        IsNull(dated[k].product_problems) =>
                            /\ entries[k].date = dated[k].date_received.n
                            /\ Contains(sAdverseEvent, entries[k].description)
                            /\ ~Contains(sNone, entries[k].description)
                            /\ ~Contains(sNan, entries[k].description)
        /\ pc = "raised" /\ i = idx /\ fda_data[i].source = "EVENT" =>
              \E k \in 1..Len(fda_data[i].rows) : fda_data[i].rows[k].date_received.t = "bad"

C7_NullProblemProcessed ==
    /\ Returned
    /\ \E i \in 1..Len(fda_data) :
          /\ EventsProcessed(i)
          /\ \E k \in 1..Len(fda_data[i].rows) :
                /\ fda_data[i].rows[k].date_received.t = "ts"
                /\ fda_data[i].rows[k].product_problems.t = "nan"

\* The display string of a product_problems value: the string itself, the
\* items of a list joined, the string form of another scalar, and the
\* placeholder for a null, an empty list and an empty string.
DisplayString(problem) ==
    CASE problem.t \in {"absent", "none", "nan"} -> sAdverseEvent
      [] problem.t = "str" -> IF problem.s = <<>> THEN sAdverseEvent ELSE problem.s
      [] problem.t = "list" ->
            IF problem.l = <<>> THEN sAdverseEvent ELSE Join(sCommaSpace, problem.l)
      [] problem.t = "num" -> NatStr(problem.n)

\* The shapes on which the code departs from DisplayString.
DepartingShape(problem) ==
    \/ problem.t = "list" /\ Len(problem.l) >= 2
    \/ problem = Str(<<>>)
    \/ problem = Num(0)

\* C18: the timeline description of a dated adverse event shows its
\* product_problems as a display string: a string as is, a non-empty list
\* joined, another scalar in its string form, and the placeholder exactly
\* for a null, an empty list and an empty string.
C18_FourShapesNormalized ==
    \A i \in 1..Len(fda_data) :
        EventsProcessed(i) =>
            LET dated == DatedRows(fda_data[i].rows)
                entries == EventEntries(Unsorted)
            IN  /\ Len(entries) = Len(dated)
                /\ \A k \in 1..Len(dated) :
                      entries[k].description =
                          sEventPrefix
                              \o Take(DisplayString(dated[k].product_problems), DescSlice)
                              \o sEllipsis

\* The same on every shape but the departing ones.
C18_OtherShapesNormalized ==
    \A i \in 1..Len(fda_data) :
        EventsProcessed(i) =>
            LET dated == DatedRows(fda_data[i].rows)
                entries == EventEntries(Unsorted)
            IN  /\ Len(entries) = Len(dated)
                /\ \A k \in 1..Len(dated) :
                      ~DepartingShape(dated[k].product_problems) =>
                          entries[k].description =
                              sEventPrefix
                                  \o Take(DisplayString(dated[k].product_problems), DescSlice)
                                  \o sEllipsis

\* The date column the mapper reads of a row of `source`.
DateOf(source, row) ==
    CASE source \in {"510K", "PMA"} -> row.decision_date
      [] source = "RECALL"          -> row.event_date_initiated
      [] source = "EVENT"           -> row.date_received

Dated == {"510K", "PMA", "RECALL", "EVENT"}

HasUnparseableDate(item) ==
    /\ item.source \in Dated
    /\ \E k \in 1..Len(item.rows) : DateOf(item.source, item.rows[k]).t = "bad"

\* C19: create_comprehensive_profile raises for no missing field, null or
\* value of another scalar type in a record (dates that do not parse set
\* aside); a recall with an initiation date and a null reason_for_recall or
\* recall_classification is added to the recalls and to the timeline.
C19_NoAnomalyPropagated ==
    pc = "raised" => HasUnparseableDate(Current)

\* The record list and the timeline kind of a dated source.
SummariesOf(source, p) ==
    CASE source = "510K"   -> p.clearances
      [] source = "PMA"    -> p.approvals
      [] source = "RECALL" -> p.recalls
      [] source = "EVENT"  -> p.adverse_events

KindOf(source) ==
    CASE source = "510K"   -> "510K_CLEARANCE"
      [] source = "PMA"    -> "PMA_APPROVAL"
      [] source = "RECALL" -> "RECALL"
      [] source = "EVENT"  -> "ADVERSE_EVENT"

\* A dated recall whose reason_for_recall is no string (the case of C19).
HasUnslicedReason(item) ==
    /\ item.source = "RECALL"
    /\ \E k \in 1..Len(item.rows) :
          /\ item.rows[k].event_date_initiated.t = "ts"
          /\ GetOr(item.rows[k].reason_for_recall, Str(sUnspecified)).t # "str"

\* C20: a clearance, approval, recall or adverse event whose date is missing
\* or does not parse is added to the list of its category and gets no
\* timeline entry, and the profile is built without raising.
C20_UndatedRecordsSkipped ==
    \A i \in 1..Len(fda_data) :
        LET item == fda_data[i]
        IN  item.source \in Dated /\ item.rows # <<>> /\ ~HasUnslicedReason(item) =>
                /\ i = idx => pc # "raised"
                /\ i < idx =>
                      /\ Len(SummariesOf(item.source, profile)) = Len(item.rows)
                      /\ Len(SelectSeq(Unsorted, LAMBDA e : e.kind = KindOf(item.source)))
                            = Len(SelectSeq(item.rows,
                                            LAMBDA row : DateOf(item.source, row).t = "ts"))

\* The same for the records whose date is missing or parses.
C20_MissingDatesSkipped ==
    \A i \in 1..Len(fda_data) :
        LET item == fda_data[i]
        IN  (/\ item.source \in Dated
             /\ item.rows # <<>>
             /\ ~HasUnslicedReason(item)
             /\ ~HasUnparseableDate(item)) =>
                /\ i = idx => pc # "raised"
                /\ i < idx =>
                      /\ Len(SummariesOf(item.source, profile)) = Len(item.rows)
                      /\ Len(SelectSeq(Unsorted, LAMBDA e : e.kind = KindOf(item.source)))
                            = Len(SelectSeq(item.rows,
                                            LAMBDA row : DateOf(item.source, row).t = "ts"))

\* A recall table that holds one record twice gives two summaries and two
\* timeline entries.
C14_RepeatedRowListedTwice ==
    /\ Returned
    /\ Len(fda_data) = 1
    /\ fda_data[1].source = "RECALL"
    /\ Len(fda_data[1].rows) = 2
    /\ fda_data[1].rows[1] = fda_data[1].rows[2]
    /\ Len(profile.recalls) = 2
    /\ profile.recalls[1] = profile.recalls[2]
    /\ Len(profile.timeline) = 2
    /\ profile.risk_score = 2 * ClassIPenalty

Summarised == pc = "summarised"

\* C16: in the regulatory summary the Class I recall count is the number of
\* recalls whose classification holds "I" but not "II" (so neither "III"):
\* Class II and Class III recalls are not counted; the serious adverse event
\* count is the number of adverse events whose flag is "Y".
C16_SafetySignalCounts ==
    Summarised =>
        /\ summary.class_1_recalls = Len(SelectSeq(profile.recalls, IsClassI))
        /\ summary.serious_adverse_events = Len(SelectSeq(profile.adverse_events, IsSerious))

\* What the code counts: every recall whose classification holds an "I".
C16_CountsAsBuilt ==
    Summarised =>
        /\ summary.class_1_recalls =
              Len(SelectSeq(profile.recalls,
                            LAMBDA r : Contains(sI, PyStr(r.recall_classification))))
        /\ summary.serious_adverse_events = Len(SelectSeq(profile.adverse_events, IsSerious))

\* The rows of the input table keyed `source`, none if there is no such table.
InputRows(source) ==
    IF \E i \in 1..Len(fda_data) : fda_data[i].source = source
    THEN fda_data[CHOOSE i \in 1..Len(fda_data) : fda_data[i].source = source].rows
    ELSE <<>>

FlaggedY == {i \in 1..Len(InputRows("EVENT")) :
               InputRows("EVENT")[i].adverse_event_flag = Str(sY)}

HighRiskRecords == {i \in 1..Len(InputRows("CLASSIFICATION")) :
                      InputRows("CLASSIFICATION")[i].device_class \in {Str(sIII), Str(s3)}}

\* C23: beside the recall penalties the score holds +2 for each adverse event
\* whose flag is exactly "Y" and nothing for any other event, and +10 once if
\* and only if some classification record has device_class "III" or "3",
\* however many such records there are (all of it capped at 100).
C23_EventAndClassTerms ==
    Returned =>
        LET events == 2 * Cardinality(FlaggedY)
            bonus  == IF HighRiskRecords # {} THEN 10 ELSE 0
            total  == RecallPenalties(profile.recalls) + events + bonus
        IN  profile.risk_score = IF total < 100 THEN total ELSE 100

C23_TwoHighRiskRecordsOneBonus ==
    /\ Returned
    /\ Cardinality(HighRiskRecords) = 2
    /\ Cardinality(FlaggedY) = 1
    /\ profile.recalls = <<>>
    /\ profile.risk_score = 12

C23_OtherFlagsAddNothing ==
    /\ Returned
    /\ Len(InputRows("EVENT")) = 2
    /\ Cardinality(FlaggedY) = 1
    /\ \E i \in 1..Len(InputRows("CLASSIFICATION")) :
          InputRows("CLASSIFICATION")[i].device_class = Num(3)
    /\ HighRiskRecords = {}
    /\ profile.risk_score = 2

(***************************************************************************)
(* EnhancedFDARetriever._build_comprehensive_search                        *)
(***************************************************************************)
UpperCase == <<"A", "B", "C", "D", "E", "F", "G", "H", "I", "J", "K", "L", "M",
               "N", "O", "P", "Q", "R", "S", "T", "U", "V", "W", "X", "Y", "Z">>
LowerCase == <<"a", "b", "c", "d", "e", "f", "g", "h", "i", "j", "k", "l", "m",
               "n", "o", "p", "q", "r", "s", "t", "u", "v", "w", "x", "y", "z">>

LowerChar(c) ==
    IF \E i \in 1..Len(UpperCase) : UpperCase[i] = c
    THEN LowerCase[CHOOSE i \in 1..Len(UpperCase) : UpperCase[i] = c]
    ELSE c

\* s.lower()
Lower(s) == [i \in 1..Len(s) |-> LowerChar(s[i])]

RECURSIVE SplitFrom(_, _, _)
\* The words of s after the words `done` and the pending word `word`.
SplitFrom(s, word, done) ==
    IF s = <<>> THEN (IF word = <<>> THEN done ELSE Append(done, word))
    ELSE IF Head(s) = " "
         THEN SplitFrom(Tail(s), <<>>, IF word = <<>> THEN done ELSE Append(done, word))
         ELSE SplitFrom(Tail(s), Append(word, Head(s)), done)

\* s.split(): the maximal runs of non-blank characters (strip() changes nothing of it)
Split(s) == SplitFrom(s, <<>>, <<>>)

\* source.lower() of the spellings a caller passes
SourceLower(source) ==
    CASE source = "510K" -> "510k"
      [] source = "EVENT" -> "event"
      [] source = "RECALL" -> "recall"
      [] source = "PMA" -> "pma"
      [] source = "CLASSIFICATION" -> "classification"
      [] source = "UDI" -> "udi"
      [] OTHER -> source

\* field_maps.get(source.lower(), [])
FieldMap(source) ==
    LET src == SourceLower(source)
    IN  CASE src = "510k" -> <<"device_name", "applicant">>
          [] src = "event" -> <<"device.brand_name", "device.generic_name">>
          [] src = "recall" -> <<"product_description", "recalling_firm">>
          [] src = "classification" -> <<"device_name", "medical_specialty_description">>
          [] src = "pma" -> <<"trade_name", "generic_name", "applicant">>
          [] src = "udi" -> <<"brand_name", "device_description", "company_name">>
          [] OTHER -> <<>>

\* f"{field}:{word}"
FieldMatch(field, word) == <<field, ":">> \o word

\* f"({sep.join(parts)})"
Group(sep, parts) == <<"(">> \o Join(sep, parts) \o <<")">>

sAnd == <<" ", "A", "N", "D", " ">>
sOr  == <<" ", "O", "R", " ">>

\* Words of this length or less get no search of their own.
ShortWord == 2
\* queries[:3]
MaxStrategies == 3

\* Strategy 1: per field the AND of all words, OR-ed over the fields
AndQuery(fields, words) ==
    Group(sOr, [f \in 1..Len(fields) |->
                   Group(sAnd, [w \in 1..Len(words) |-> FieldMatch(fields[f], words[w])])])

\* Strategies 2 and 3: one word or phrase OR-ed over the fields
OrQuery(fields, word) ==
    Group(sOr, [f \in 1..Len(fields) |-> FieldMatch(fields[f], word)])

\* Mutant: a search of its own for every word, the short ones included.
AllQueriesEveryWord(query, source) ==
    LET words == Split(Lower(query))
        fields == FieldMap(source)
        single_query == Join(<<" ">>, words)
    IN  IF fields = <<>> THEN <<>>
        ELSE (IF Len(words) > 1 THEN <<AndQuery(fields, words)>> ELSE <<>>)
             \o [i \in 1..Len(words) |-> OrQuery(fields, words[i])]
             \o (IF ~Contains(<<" ">>, single_query) \/ Len(words) = 1
                 THEN <<OrQuery(fields, single_query)>> ELSE <<>>)

\* The queries list before the final slice.
AllQueries(query, source) ==
    LET words == Split(Lower(query))
        fields == FieldMap(source)
        long == SelectSeq(words, LAMBDA w : Len(w) > ShortWord)
        single_query == Join(<<" ">>, words)
    IN  IF fields = <<>> THEN <<>>
        ELSE (IF Len(words) > 1 THEN <<AndQuery(fields, words)>> ELSE <<>>)
             \o [i \in 1..Len(long) |-> OrQuery(fields, long[i])]
             \o (IF ~Contains(<<" ">>, single_query) \/ Len(words) = 1
                 THEN <<OrQuery(fields, single_query)>> ELSE <<>>)

\* Mutant: the list returned without the [:3] slice.
BuildComprehensiveSearchUnsliced(query, source) == AllQueries(query, source)

BuildComprehensiveSearch(query, source) == Take(AllQueries(query, source), MaxStrategies)

(***************************************************************************)
(* _build_comprehensive_search on its own                                  *)
(***************************************************************************)
\* Length of the free-text queries drawn from QueryChars.
MaxQueryLen == 6

QueryChars == {"a", "B", " "}

sInsulinPump == <<"I", "n", "s", "u", "l", "i", "n", " ", "P", "u", "m", "p">>
sThreeWords  == <<"a", "a", "a", " ", "B", "B", "B", " ", " ", "c", "c", "c", "c">>
sFourWords   == <<"a", "a", "a", " ", "B", "B", "B", " ", "c", "c", "c", " ", "d", "d", "d">>

FreeTextQueries ==
    UNION {[1..k -> QueryChars] : k \in 0..MaxQueryLen}
        \cup {sInsulinPump, sThreeWords, sFourWords}

\* The six sources, a source in capitals and one the retriever does not know.
SourceKinds == {"510k", "event", "recall", "classification", "pma", "udi", "EVENT", "drug"}

BuildQueries ==
    /\ bpc = "call"
    /\ b_result' = BuildComprehensiveSearch(b_query, b_source)
    /\ bpc' = "done"
    /\ UNCHANGED <<b_query, b_source, aggVars, retVars, extVars>>

InitQueries ==
    /\ b_query \in FreeTextQueries
    /\ b_source \in SourceKinds
    /\ b_result = <<>>
    /\ bpc = "call"
    /\ AggIdle
    /\ RetIdle
    /\ ExtIdle

NextQueries == BuildQueries

SpecQueries == InitQueries /\ [][NextQueries]_vars

\* C10: _build_comprehensive_search returns at most 3 query strings, and at
\* least one for a non-empty query on a source that has candidate fields.
C10_OneToThreeQueries ==
    bpc = "done" =>
        /\ Len(b_result) <= 3
        /\ b_query # <<>> /\ FieldMap(b_source) # <<>> => Len(b_result) >= 1

C10_FourStrategiesSliced ==
    /\ bpc = "done"
    /\ Len(AllQueries(b_query, b_source)) > 3
    /\ Len(b_result) = 3
    /\ b_result = SubSeq(AllQueries(b_query, b_source), 1, 3)

\* The words of the query of the call, and the kinds of a returned string.
QueryWords == Split(Lower(b_query))

IsConjunctive(q) == Contains(sAnd, q)

IsPerWord(q) ==
    \E w \in 1..Len(QueryWords) :
        Len(QueryWords[w]) > 2 /\ q = OrQuery(FieldMap(b_source), QueryWords[w])

IsExactPhrase(q) == q = OrQuery(FieldMap(b_source), Join(<<" ">>, QueryWords))

\* The field names a query string matches on, in the order it names them.
FieldsNamed(q) == SelectSeq(q, LAMBDA c : \E f \in 1..Len(FieldMap(b_source)) :
                                             c = FieldMap(b_source)[f])

\* Each field once per word in a conjunctive query, once in the others.
RangesOverAllFields(q) ==
    \/ ~IsConjunctive(q) /\ FieldsNamed(q) = FieldMap(b_source)
    \/ IsConjunctive(q) /\
          FieldsNamed(q) = [k \in 1..(Len(FieldMap(b_source)) * Len(QueryWords)) |->
                               FieldMap(b_source)[((k - 1) \div Len(QueryWords)) + 1]]

\* C24: the returned list is in priority order: the conjunctive query, there
\* exactly for an input of several words, is first; then come disjunctive
\* queries of single words, each a word longer than 2 characters; the
\* exact-phrase query, when it is no per-word query as well, is last; every
\* returned query names all candidate fields of the source.
C24_PriorityOrder ==
    (bpc = "done" /\ FieldMap(b_source) # <<>>) =>
        /\ Len(QueryWords) > 1 <=> (b_result # <<>> /\ IsConjunctive(b_result[1]))
        /\ \A i \in 2..Len(b_result) : ~IsConjunctive(b_result[i])
        /\ \A i \in 1..Len(b_result) :
              \/ IsConjunctive(b_result[i])
              \/ IsPerWord(b_result[i])
              \/ IsExactPhrase(b_result[i]) /\ i = Len(b_result)
        /\ \A i \in 1..Len(b_result) : RangesOverAllFields(b_result[i])

C24_ShortWordSkipped ==
    /\ bpc = "done"
    /\ Len(FieldMap(b_source)) = 3
    /\ Len(QueryWords) = 2
    /\ Len(QueryWords[1]) = 2
    /\ Len(QueryWords[2]) = 3
    /\ Len(b_result) = 2
    /\ IsConjunctive(b_result[1])
    /\ b_result[2] = OrQuery(FieldMap(b_source), QueryWords[2])

C24_ShortSingleWordExactOnly ==
    /\ bpc = "done"
    /\ FieldMap(b_source) # <<>>
    /\ Len(QueryWords) = 1
    /\ Len(QueryWords[1]) = 2
    /\ Len(b_result) = 1
    /\ IsExactPhrase(b_result[1])
    /\ ~IsPerWord(b_result[1])

\* C29: the query strings returned by one call are pairwise distinct.
C29_QueriesPairwiseDistinct ==
    bpc = "done" =>
        \A i, j \in 1..Len(b_result) : i # j => b_result[i] # b_result[j]

(***************************************************************************)
(* DataRelationshipMapper._extract_device_identifiers: the identifier sets *)
(* drawn from the tables.  The _process_* methods receive them and read    *)
(* none of them.                                                           *)
(***************************************************************************)
NameFields == {"device_name", "trade_name", "generic_name", "product_description",
               "device.brand_name", "device.generic_name", "brand_name"}
CodeFields == {"product_code", "device.device_report_product_code"}
MfgFields  == {"applicant", "manufacturer_name", "recalling_firm", "company_name"}

\* df[field].dropna() over the tables that are not empty, for each field of
\* `fields` among the columns
ColumnCells(data, fields) ==
    UNION { UNION { {data[i].rows[k][f] : f \in {g \in fields \cap DOMAIN data[i].rows[k] :
                                                    NotNa(data[i].rows[k][g])}} :
                    k \in 1..Len(data[i].rows) } :
            i \in 1..Len(data) }

\* Series.str.lower(): NaN for a value that is no string
StrLower(c) == IF c.t = "str" THEN Str(Lower(c.s)) ELSE NaN

ExtractDeviceIdentifiers(data) ==
    [device_names  |-> {StrLower(c) : c \in ColumnCells(data, NameFields)},
     product_codes |-> ColumnCells(data, CodeFields),
     manufacturers |-> {StrLower(c) : c \in ColumnCells(data, MfgFields)},
     k_numbers     |-> ColumnCells(data, {"k_number"}),
     pma_numbers   |-> ColumnCells(data, {"pma_number"})]

\* A row one of whose values is in the identifier sets of the input.
MatchesIdentifiers(row) ==
    LET identifiers == ExtractDeviceIdentifiers(fda_data)
    IN  \E f \in DOMAIN row :
            \/ f \in NameFields /\ StrLower(row[f]) \in identifiers.device_names \ {NaN}
            \/ f \in CodeFields /\ row[f] \in identifiers.product_codes
            \/ f \in MfgFields /\ StrLower(row[f]) \in identifiers.manufacturers \ {NaN}

\* The input without the tables of the keys the dispatch does not know.
KnownTables == SelectSeq(fda_data, LAMBDA item : item.source \in KnownSources)

\* C30: the profile returned has as many clearance, approval, recall,
\* adverse-event and classification summaries as the tables keyed 510K, PMA,
\* RECALL, EVENT and CLASSIFICATION have rows, rows that match no extracted
\* identifier included, and it is the profile of the input without the
\* tables under other keys.
C30_RecordConservation ==
    Returned =>
        /\ Len(profile.clearances) = Len(InputRows("510K"))
        /\ Len(profile.approvals) = Len(InputRows("PMA"))
        /\ Len(profile.recalls) = Len(InputRows("RECALL"))
        /\ Len(profile.adverse_events) = Len(InputRows("EVENT"))
        /\ Len(profile.classifications) = Len(InputRows("CLASSIFICATION"))
        /\ profile = BuildProfile(KnownTables).p

C30_UnmatchedRowAndUdiTable ==
    /\ Returned
    /\ InputRows("UDI") # <<>>
    /\ Len(InputRows("CLASSIFICATION")) = 2
    /\ \E k \in 1..2 : ~MatchesIdentifiers(InputRows("CLASSIFICATION")[k])
    /\ \E k \in 1..2 : MatchesIdentifiers(InputRows("CLASSIFICATION")[k])
    /\ ExtractDeviceIdentifiers(fda_data).device_names # {}
    /\ Len(profile.classifications) = 2

(***************************************************************************)
(* EnhancedFDARetriever._make_request and get_comprehensive_data           *)
(***************************************************************************)
\* limit = 100, the page size of the API
PageLimit == 100

\* Mutant: a source without endpoint is not turned away.
HasEndpointUnchecked(source) == TRUE

\* FDA_ENDPOINTS.get(source.lower())
HasEndpoint(source) ==
    SourceLower(source) \in {"510k", "event", "recall", "classification", "pma", "udi"}

\* params["sort"]
SortParam(source) ==
    LET src == SourceLower(source)
    IN  CASE src = "event" -> "date_received:desc"
          [] src = "recall" -> "event_date_initiated:desc"
          [] src \in {"510k", "pma"} -> "decision_date:desc"
          [] OTHER -> ""

\* What the network does with a request: a timeout, a non-2xx status, a body
\* that is no JSON, or a JSON body, which may lack the results list.
FailureKinds == {"timeout", "http_error", "bad_json"}

Outcome(kind, n) == [kind |-> kind, n |-> n]

\* Mutant: the exception of a failed request is not caught.
MakeRequestUncaught(outcome) ==
    IF outcome.kind \in FailureKinds THEN Outcome("raise", 0) ELSE outcome

\* The return value of _make_request: None for every RequestException
\* (timeouts, raise_for_status, and the JSONDecodeError of response.json()),
\* the decoded body otherwise.
MakeRequest(outcome) ==
    IF outcome.kind \in FailureKinds THEN Outcome("none", 0) ELSE outcome

\* `not data or 'results' not in data or not data['results']`
NoResults(data) == data.kind \in {"none", "no_results"} \/ data.n = 0

RECURSIVE Count(_)
\* len(all_results)
Count(pages) == IF pages = <<>> THEN 0 ELSE Head(pages).n + Count(Tail(pages))

\* Mutant: the whole budget asked for before the later strategies are dropped.
EnoughOnlyWhenFull(count, budget) == count >= budget

\* len(all_results) >= max_records * 0.8
Enough(count, budget) == 10 * count >= 8 * budget

\* get_comprehensive_data up to the first iteration of the strategy loop
BeginRetrieve ==
    /\ rpc = "start"
    /\ IF ~HasEndpoint(r_source)
       THEN search_queries' = <<>> /\ qi' = 0 /\ rpc' = "done" /\ built' = built
       ELSE LET queries == BuildComprehensiveSearch(r_query, r_source)
            IN  /\ search_queries' = queries
                /\ built' = built + 1
                /\ qi' = IF queries = <<>> THEN 0 ELSE 1
                /\ rpc' = IF queries = <<>> THEN "done" ELSE "page"
    /\ skip' = 0
    /\ UNCHANGED <<r_query, r_source, max_records, all_results, inflight, calls,
                   aggVars, qbVars, extVars>>

\* Mutant: `skip = 0` at the head of the strategy loop left out.
EndStrategyKeepsSkip(results) ==
    IF Enough(Count(results), max_records) \/ qi = Len(search_queries)
    THEN rpc' = "done" /\ qi' = qi /\ skip' = skip
    ELSE rpc' = "page" /\ qi' = qi + 1 /\ skip' = skip

\* The exit of the while loop of strategy qi, by `break` or by its condition:
\* the 80% test, then the next strategy or the return.
EndStrategy(results) ==
    IF Enough(Count(results), max_records) \/ qi = Len(search_queries)
    THEN rpc' = "done" /\ qi' = qi /\ skip' = skip
    ELSE rpc' = "page" /\ qi' = qi + 1 /\ skip' = 0

\* Mutant: a full page asked for whatever is left of the budget.
RequestLimitFullPage(count) == PageLimit

\* min(limit, max_records - len(all_results))
RequestLimit(count) == Min(PageLimit, max_records - count)

\* One pass of the while loop up to the network call of _make_request.
SendRequest ==
    /\ rpc = "page"
    /\ Count(all_results) < max_records
    /\ LET request == [q |-> qi,
                       limit |-> RequestLimit(Count(all_results)),
                       skip |-> skip,
                       sort |-> SortParam(r_source)]
       IN  /\ inflight' = request
           /\ calls' = Append(calls, [q |-> qi, limit |-> request.limit, skip |-> skip,
                                      result |-> "pending", n |-> 0])
    /\ rpc' = "wait"
    /\ UNCHANGED <<r_query, r_source, max_records, search_queries, qi, skip,
                   all_results, built, aggVars, qbVars, extVars>>

\* The while condition is false: the budget is spent.
BudgetSpent ==
    /\ rpc = "page"
    /\ Count(all_results) >= max_records
    /\ EndStrategy(all_results)
    /\ UNCHANGED <<r_query, r_source, max_records, search_queries, all_results,
                   inflight, calls, built, aggVars, qbVars, extVars>>

\* Mutant: a short page does not end the paging of the strategy.
EndOfDataIgnored(n) == FALSE

\* len(data['results']) < limit
EndOfData(n) == n < PageLimit

\* The rest of the pass once the network has answered with `outcome`.
Receive(outcome) ==
    LET data == MakeRequest(outcome)
        result == IF outcome.kind = "json" THEN "page" ELSE outcome.kind
    IN  /\ rpc = "wait"
        /\ inflight' = NoRequest
        /\ calls' = [calls EXCEPT ![Len(calls)].result = result, ![Len(calls)].n = outcome.n]
        /\ IF data.kind = "raise"
           THEN rpc' = "raised" /\ UNCHANGED <<qi, skip, all_results>>
           ELSE IF NoResults(data)
           THEN EndStrategy(all_results) /\ UNCHANGED all_results
           ELSE LET results == Append(all_results, [q |-> qi, skip |-> skip, n |-> data.n])
                IN  /\ all_results' = results
                    /\ IF EndOfData(data.n)
                       THEN EndStrategy(results)
                       ELSE rpc' = "page" /\ qi' = qi /\ skip' = skip + PageLimit
        /\ UNCHANGED <<r_query, r_source, max_records, search_queries, built,
                       aggVars, qbVars, extVars>>

\* Sizes of the short pages the server answers with.
ShortPages == {39, 40, 45}

\* A page of records: as many as asked for, or fewer.
ReceivePage ==
    \E n \in {inflight.limit} \cup {m \in ShortPages : m < inflight.limit} :
        n > 0 /\ Receive(Outcome("json", n))

\* A body with an empty results list, or with none (an error body).
ReceiveEmpty ==
    \E kind \in {"json", "no_results"} :
        /\ inflight # NoRequest
        /\ Receive(Outcome(kind, 0))

\* A timeout, a non-2xx status or a body that is no JSON.
ReceiveFailure ==
    \E kind \in FailureKinds :
        /\ inflight # NoRequest
        /\ Receive(Outcome(kind, 0))

(***************************************************************************)
(* The specification of get_comprehensive_data                             *)
(***************************************************************************)
\* The largest max_records of a call.
LargeBudget == 250

RecordBudgets == {0, 50, LargeBudget}

sPumpQuery == <<"P", "u", "m", "p">>
sShortQuery == <<"a", "b">>

RetrieveQueries == {sShortQuery, sPumpQuery, sInsulinPump}

RetrieveSources == {"510k", "EVENT", "udi", "drug"}

InitRetrieve ==
    /\ r_query \in RetrieveQueries
    /\ r_source \in RetrieveSources
    /\ max_records \in RecordBudgets
    /\ search_queries = <<>> /\ qi = 0 /\ skip = 0
    /\ all_results = <<>> /\ inflight = NoRequest /\ calls = <<>>
    /\ rpc = "start"
    /\ built = 0
    /\ AggIdle
    /\ QbIdle
    /\ ExtIdle

NextRetrieve ==
    \/ BeginRetrieve
    \/ SendRequest
    \/ BudgetSpent
    \/ ReceivePage
    \/ ReceiveEmpty
    \/ ReceiveFailure

SpecRetrieve == InitRetrieve /\ [][NextRetrieve]_vars

(***************************************************************************)
(* Properties of get_comprehensive_data                                    *)
(***************************************************************************)
RECURSIVE CountThrough(_, _)
\* The records the strategies 1..j have put into `pages`.
CountThrough(pages, j) ==
    IF pages = <<>> THEN 0
    ELSE (IF Head(pages).q <= j THEN Head(pages).n ELSE 0) + CountThrough(Tail(pages), j)

AtLeast80Percent(count) == 10 * count >= 8 * max_records

\* C8: once a strategy has finished with at least 80% of max_records
\* accumulated, no later strategy issues a request; with max_records = 50 and
\* 45 records from the first strategy, the second and third issue none.
C8_NoRequestAfterEnough ==
    /\ \A k \in 1..Len(calls) :
          calls[k].q > 1 => ~AtLeast80Percent(CountThrough(all_results, calls[k].q - 1))
    /\ max_records = 50 /\ CountThrough(all_results, 1) = 45 =>
          \A k \in 1..Len(calls) : calls[k].q = 1

C8_FirstStrategyYields45Of50 ==
    /\ rpc = "done"
    /\ max_records = 50
    /\ Len(search_queries) = 3
    /\ Count(all_results) = 45
    /\ Len(calls) = 1
    /\ calls[1].q = 1

\* The source kinds the system defines.
SourceKindsDefined == {"510k", "event", "recall", "classification", "pma", "udi"}

UnknownSource == SourceLower(r_source) \notin SourceKindsDefined

\* C13: a retrieval for an unknown source kind returns an empty table at
\* once: no query is built, no request is issued, nothing is retried.
C13_UnknownSourceReturnsEmpty ==
    UnknownSource =>
        /\ built = 0
        /\ search_queries = <<>>
        /\ calls = <<>>
        /\ inflight = NoRequest
        /\ all_results = <<>>
        /\ rpc \in {"start", "done"}

C13_UnknownSourceReturned ==
    /\ r_source = "drug"
    /\ rpc = "done"
    /\ built = 0
    /\ calls = <<>>
    /\ all_results = <<>>

RECURSIVE ReceivedBefore(_, _)
\* The records the calls before the k-th have brought.
ReceivedBefore(history, k) ==
    IF k <= 1 THEN 0
    ELSE ReceivedBefore(history, k - 1)
            + (IF history[k - 1].result = "page" THEN history[k - 1].n ELSE 0)

RanksOf(page) == (page.skip + 1)..(page.skip + page.n)

SameUpstreamRecord(page1, page2) ==
    /\ search_queries[page1.q] = search_queries[page2.q]
    /\ RanksOf(page1) \cap RanksOf(page2) # {}

\* C14: an upstream record that more than one strategy returns is in the
\* retrieved table at most once.
C14_NoRecordTwice ==
    \A i, j \in 1..Len(all_results) :
        i < j => ~SameUpstreamRecord(all_results[i], all_results[j])

IsFailure(call) == call.result \in FailureKinds

\* The pages of the calls that brought records, in order.
PagesOf(history) ==
    LET got == SelectSeq(history, LAMBDA c : c.result = "page" /\ c.n > 0)
    IN  [k \in 1..Len(got) |-> [q |-> got[k].q, skip |-> got[k].skip, n |-> got[k].n]]

\* C9: a failed request (timeout, non-2xx status, body that is no JSON)
\* never makes the retrieval raise; it ends the paging of its strategy like
\* an empty page, the records accumulated so far are kept and returned, and
\* the next strategy is tried when less than 80% of max_records is there.
C9_FailureIsEmptyPage ==
    /\ rpc # "raised"
    /\ all_results = PagesOf(calls)
    /\ \A k \in 1..Len(calls) :
          IsFailure(calls[k]) =>
            /\ k < Len(calls) => calls[k + 1].q = calls[k].q + 1 /\ calls[k + 1].skip = 0
            /\ /\ k = Len(calls)
               /\ calls[k].q < Len(search_queries)
               /\ ~AtLeast80Percent(CountThrough(all_results, calls[k].q))
               => rpc = "page" /\ qi = calls[k].q + 1 /\ Count(all_results) < max_records

C9_FailureBetweenPages ==
    /\ rpc = "done"
    /\ \E k \in 2..(Len(calls) - 1) :
          /\ calls[k].result = "bad_json"
          /\ calls[k - 1].result = "page"
          /\ calls[k - 1].q = calls[k].q
          /\ calls[k + 1].result = "page"
          /\ calls[k + 1].q = calls[k].q + 1
    /\ \E k \in 1..Len(calls) : calls[k].result = "timeout"
    /\ \E k \in 1..Len(calls) : calls[k].result = "http_error"

\* C27: as long as the server returns no more records than a request asks
\* for, the accumulated record count never exceeds max_records; every page
\* request asks for min(100, max_records - accumulated) records, at least 1;
\* with max_records = 0 no request is issued.
C27_RecordBudget ==
    /\ Count(all_results) <= max_records
    /\ \A k \in 1..Len(calls) :
          LET left == max_records - ReceivedBefore(calls, k)
          IN  /\ calls[k].limit = IF left < 100 THEN left ELSE 100
              /\ calls[k].limit >= 1
    /\ max_records = 0 => calls = <<>>

C27_LastPageAsksForRest ==
    /\ rpc = "done"
    /\ max_records = LargeBudget
    /\ Len(calls) = 3
    /\ calls[3].limit = LargeBudget - 200
    /\ calls[3].n = calls[3].limit
    /\ Count(all_results) = max_records

C27_NoBudgetNoRequest ==
    /\ rpc = "done"
    /\ HasEndpoint(r_source)
    /\ max_records = 0
    /\ search_queries # <<>>
    /\ calls = <<>>

\* The requests of one call: one that ends the paging for each strategy and
\* one for each full page of 100 records the budget has room for.
RequestBound == Len(search_queries) + (max_records \div 100)

\* What is left for the call to do: the budget not yet filled, the strategies
\* not yet begun and the rest of the current pass.
Phase == CASE rpc \in {"start", "page"} -> 2 [] rpc = "wait" -> 1 [] OTHER -> 0

Measure == 3 * (max_records - Count(all_results)) + 3 * (3 - qi) + Phase

\* C28: whatever the server answers, get_comprehensive_data returns: every
\* step of the call brings it nearer to its return, and it issues at most
\* (number of strategies, at most 3) + floor(max_records / 100) requests.
C28_ReturnsWithinRequestBound ==
    /\ [](Len(search_queries) <= 3 /\ Len(calls) <= RequestBound /\ Measure >= 0)
    /\ [][Measure' < Measure]_vars

C28_BoundMet ==
    /\ rpc = "done"
    /\ max_records = LargeBudget
    /\ Len(search_queries) = 3
    /\ Len(calls) = RequestBound

(***************************************************************************)
(* _make_request called by several threads on one retriever instance.      *)
(* The method holds no lock: a caller sleeps rate_limit_delay, hands its    *)
(* request to self.session.get and waits for the answer, whatever the      *)
(* other callers do.                                                       *)
(***************************************************************************)
\* Threads that share the instance, and calls each of them makes.
MaxCallers == 3
MaxCallsEach == 2

Callers == 1..Len(thread)

AtRest(left) == [at |-> "idle", slept |-> FALSE, left |-> left]

\* A caller enters _make_request: time.sleep(self.rate_limit_delay) begins.
EnterMakeRequest(c) ==
    /\ thread[c].at = "idle"
    /\ thread[c].left > 0
    /\ thread' = [thread EXCEPT ![c] = [at |-> "sleep", slept |-> FALSE, left |-> @.left - 1]]
    /\ UNCHANGED <<requests, aggVars, retVars, qbVars, filtVars, normVars, crossVars>>

\* The sleep is over: self.session.get(url, params=params, timeout=30) sends.
SessionGet(c) ==
    /\ thread[c].at = "sleep"
    /\ thread' = [thread EXCEPT ![c].at = "get", ![c].slept = TRUE]
    /\ requests' = Append(requests, [caller |-> c, delayed |-> thread[c].at = "sleep",
                                     others |-> {d \in Callers : thread[d].at = "get"}])
    /\ UNCHANGED <<aggVars, retVars, qbVars, filtVars, normVars, crossVars>>

\* The answer, or the exception the method catches: _make_request returns.
ReturnFromRequest(c) ==
    /\ thread[c].at = "get"
    /\ thread' = [thread EXCEPT ![c] = AtRest(@.left)]
    /\ UNCHANGED <<requests, aggVars, retVars, qbVars, filtVars, normVars, crossVars>>

Enter == \E c \in Callers : EnterMakeRequest(c)
Send == \E c \in Callers : SessionGet(c)
Return == \E c \in Callers : ReturnFromRequest(c)

InitCallers ==
    /\ \E n \in 1..MaxCallers : thread = [c \in 1..n |-> AtRest(MaxCallsEach)]
    /\ requests = <<>>
    /\ AggIdle
    /\ RetIdle
    /\ QbIdle
    /\ FiltIdle
    /\ NormIdle
    /\ CrossIdle

NextCallers == Enter \/ Send \/ Return

SpecCallers == InitCallers /\ [][NextCallers]_vars

InFlight == {c \in Callers : thread[c].at = "get"}

\* C15: whatever the interleaving of the callers of one retriever, every
\* request is preceded by the rate-limit delay and at most one request of
\* the instance is in flight at any time.
C15_OneRequestInFlight ==
    /\ \A k \in 1..Len(requests) : requests[k].delayed
    /\ Cardinality(InFlight) <= 1

\* What holds of the code: each request follows the delay of its own call,
\* and one caller alone has one request in flight at most.
C15_DelayedPerCall ==
    /\ \A k \in 1..Len(requests) : requests[k].delayed
    /\ \A c \in Callers : thread[c].at = "get" => thread[c].slept
    /\ Len(thread) = 1 => Cardinality(InFlight) <= 1

(***************************************************************************)
(* filter_by_date (src/fda_data.py).  A table is its date column, if any,  *)
(* and its rows; a row is its index label and the cell of that column.     *)
(* Instants are counted in days.                                           *)
(***************************************************************************)
\* A text pd.to_datetime parses to the instant n, and the missing Timestamp.
DateText(n) == Cell("datetext", <<>>, <<>>, n)
NaT         == Cell("nat", <<>>, <<>>, 0)

Table(col, rows) == [col |-> col, rows |-> rows]

\* The date_field of a source: the if / elif chain on source.upper().
SourceUpper(source) ==
    CASE source = "510k" -> "510K"
      [] source = "event" -> "EVENT"
      [] source = "recall" -> "RECALL"
      [] source = "pma" -> "PMA"
      [] source = "classification" -> "CLASSIFICATION"
      [] source = "udi" -> "UDI"
      [] OTHER -> source

DateField(source) ==
    LET src == SourceUpper(source)
    IN  CASE src = "RECALL" -> "event_date_initiated"
          [] src = "EVENT" -> "date_received"
          [] src \in {"PMA", "510K"} -> "decision_date"
          [] OTHER -> "None"

\* timedelta(days=months * 30)
DaysPerMonth == 30

\* Mutant: only texts are parsed, a Timestamp is coerced to NaT.
ToDatetimeTextOnly(c) == IF c.t = "datetext" THEN Ts(c.n) ELSE NaT

\* pd.to_datetime(value, errors='coerce')
ToDatetimeCoerce(c) == IF c.t \in {"ts", "datetext"} THEN Ts(c.n) ELSE NaT

\* df[date_field] = pd.to_datetime(df[date_field], errors='coerce')
CoerceColumn(df) ==
    Table(df.col, [k \in 1..Len(df.rows) |->
                      [df.rows[k] EXCEPT !.date = ToDatetimeCoerce(@)]])

\* Mutant: the cutoff instant itself is outside the window.
AtOrAfterExclusive(c, cutoff) == c.t = "ts" /\ c.n > cutoff

\* value >= cutoff_date on a coerced cell: False for NaT
AtOrAfter(c, cutoff) == c.t = "ts" /\ c.n >= cutoff

NoCutoff == -1

\* One call of filter_by_date at the clock reading `now`: the cutoff it
\* used, the caller's table after the call and the table it returns.
FilterByDate(df, source, months, now) ==
    LET date_field == DateField(source)
        cutoff_date == now - months * DaysPerMonth
        coerced == CoerceColumn(df)
    IN  IF date_field # "None" /\ date_field = df.col
        THEN [cutoff |-> cutoff_date,
              df |-> coerced,
              out |-> Table(df.col,
                            SelectSeq(coerced.rows, LAMBDA r : AtOrAfter(r.date, cutoff_date)))]
        ELSE [cutoff |-> NoCutoff, df |-> df, out |-> df]

\* filter_by_date(df, source, months)
FilterFirst ==
    /\ fpc = "call"
    /\ LET call == FilterByDate(f_df, f_source, f_months, f_now)
       IN  /\ f_df' = call.df
           /\ f_results' = <<[cutoff |-> call.cutoff, given |-> f_df, table |-> call.out]>>
    /\ fpc' = "again"
    /\ UNCHANGED <<f_source, f_months, f_now, aggVars, retVars, qbVars, callVars, normVars, crossVars>>

\* Time passes between the two calls.
ClockAdvances ==
    /\ fpc = "again"
    /\ f_now' = f_now + 1
    /\ fpc' = "later"
    /\ UNCHANGED <<f_df, f_source, f_months, f_results, aggVars, retVars, qbVars,
                   callVars, normVars, crossVars>>

\* filter_by_date(result, source, months) on the table the first call returned
FilterAgain ==
    /\ fpc \in {"again", "later"}
    /\ LET call == FilterByDate(f_results[1].table, f_source, f_months, f_now)
       IN  f_results' = Append(f_results, [cutoff |-> call.cutoff,
                                           given |-> f_results[1].table,
                                           table |-> call.out])
    /\ fpc' = "done"
    /\ UNCHANGED <<f_df, f_source, f_months, f_now, aggVars, retVars, qbVars,
                   callVars, normVars, crossVars>>

(***************************************************************************)
(* The specification of filter_by_date applied twice                       *)
(***************************************************************************)
\* Rows of a table passed to the filter.
MaxFilterRows == 2

Apr09 == DayOf2024(4, 9)

DateCells == {DateText(Jan10), DateText(Feb15), DateText(Mar01), Ts(Feb15), BadDate, NoneV, NaN}

DateColumns == {"decision_date", "date_received", "event_date_initiated", "None"}

FilterSources == {"510K", "pma", "RECALL", "event", "CLASSIFICATION", "UDI"}

FilterMonths == {1, 2, 3}

FilterTables ==
    { Table(col, [k \in 1..n |-> [id |-> k, date |-> cells[k]]]) :
        col \in DateColumns, n \in 0..MaxFilterRows, cells \in [1..MaxFilterRows -> DateCells] }

InitFilter ==
    /\ f_df \in FilterTables
    /\ f_source \in FilterSources
    /\ f_months \in FilterMonths
    /\ f_now = Apr09
    /\ f_results = <<>>
    /\ fpc = "call"
    /\ AggIdle
    /\ RetIdle
    /\ QbIdle
    /\ CallIdle
    /\ NormIdle
    /\ CrossIdle

NextFilter == FilterFirst \/ ClockAdvances \/ FilterAgain

SpecFilter == InitFilter /\ [][NextFilter]_vars

\* C11: filtering the table a first filtering returned, by the same window,
\* returns a table identical to it, for every table, source and window.
C11_FilterIdempotent ==
    fpc = "done" /\ f_results[2].cutoff = f_results[1].cutoff =>
        f_results[2].table = f_results[1].table

C11_FilteredTwice ==
    /\ fpc = "done"
    /\ f_results[1].cutoff # NoCutoff
    /\ f_results[2].cutoff = f_results[1].cutoff
    /\ Len(f_df.rows) = 2
    /\ Len(f_results[1].table.rows) = 1
    /\ f_results[2].table = f_results[1].table

\* A second call made after the clock has passed the date of a record works
\* with a later window and drops the record.
C11_LaterWindowDropsRecord ==
    /\ fpc = "done"
    /\ f_results[2].cutoff > f_results[1].cutoff
    /\ Len(f_results[2].table.rows) < Len(f_results[1].table.rows)

\* The records of a table, by their index labels, in the order of the table.
Labels(rows) == [k \in 1..Len(rows) |-> rows[k].id]

\* The date of a record is a timestamp or a text that parses to one.
ParsesToTimestamp(c) == c.t \in {"ts", "datetext"}

DatedSources == {"510K", "PMA", "RECALL", "EVENT"}

\* The first call, its table carrying the date field of its dated source.
FirstCallDated ==
    /\ fpc # "call"
    /\ SourceUpper(f_source) \in DatedSources
    /\ f_results[1].given.col = DateField(f_source)

\* C21: on a table of a dated source the filter returns the records of the
\* table, in their order, whose date parses to an instant at or after now
\* minus months x 30 days; a record with a null or unparseable date is left
\* out; a classification or UDI table is returned as it was passed.
C21_WindowOfRecords ==
    /\ (fpc = "again" /\ FirstCallDated) =>
          LET cutoff == f_now - f_months * 30
              InWindow(r) == ParsesToTimestamp(r.date) /\ r.date.n >= cutoff
          IN  /\ Labels(f_results[1].table.rows)
                   = Labels(SelectSeq(f_results[1].given.rows, InWindow))
              /\ \A k \in 1..Len(f_results[1].table.rows) :
                   f_results[1].table.rows[k].date.t = "ts"
    /\ (fpc = "again" /\ SourceUpper(f_source) \notin DatedSources) =>
          f_results[1].table = f_results[1].given

C21_CutoffInstantKept ==
    /\ fpc = "again"
    /\ FirstCallDated
    /\ Len(f_results[1].given.rows) = 2
    /\ f_results[1].given.rows[1].date \in {NoneV, NaN, BadDate}
    /\ ParsesToTimestamp(f_results[1].given.rows[2].date)
    /\ f_results[1].given.rows[2].date.n = f_now - f_months * 30
    /\ Labels(f_results[1].table.rows) = <<2>>

\* C22: the call leaves the table passed to it as it was.
C22_CallerTableUnchanged ==
    fpc = "again" => f_df = f_results[1].given

(***************************************************************************)
(* process_results, process_event_data and add_missing_columns             *)
(* (src/fda_data.py).  A raw result is a function from its keys to cells;  *)
(* besides the scalar cells a value may be a nested dict (Dict) or a list  *)
(* of dicts (Dicts).  A DataFrame is its set of column names and its rows, *)
(* each a function from the columns to cells.                              *)
(***************************************************************************)
Dict(d)  == Cell("dict", <<>>, d, 0)
Dicts(l) == Cell("dicts", <<>>, l, 0)

DataFrame(columns, rows) == [columns |-> columns, rows |-> rows]

\* pd.DataFrame()
EmptyFrame == DataFrame({}, <<>>)

\* DISPLAY_COLUMNS.get(source.upper(), [])
DisplayColumns(source) ==
    LET src == SourceUpper(source)
    IN  CASE src = "510K" ->
                {"k_number", "device_name", "decision_date", "decision_description",
                 "applicant", "product_code", "clearance_type"}
          [] src = "PMA" ->
                {"pma_number", "supplement_number", "trade_name", "generic_name",
                 "decision_date", "supplement_reason", "applicant", "product_code"}
          [] src = "CLASSIFICATION" ->
                {"device_name", "classification_name", "product_code", "device_class",
                 "regulation_number", "medical_specialty_description"}
          [] src = "UDI" ->
                {"brand_name", "device_description", "company_name", "device_identifier",
                 "version_or_model_number", "device_status"}
          [] src = "RECALL" ->
                {"event_date_initiated", "recalling_firm", "product_description",
                 "recall_status", "reason_for_recall"}
          [] src = "EVENT" ->
                {"report_number", "event_type", "date_received", "date_of_event",
                 "manufacturer_name", "product_problems", "adverse_event_flag",
                 "remedial_action", "event_location", "reporter_occupation_code",
                 "device.brand_name", "device.generic_name",
                 "device.device_report_product_code"}
          [] OTHER -> {}

\* The column of the key `sub` of the nested dict `key`, with sep='.'
Nested(key, sub) == key \o "." \o sub

\* The flattened columns of one raw result: a nested dict gives one column
\* per key, every other value (lists too) the column of its own key.
FlatColumns(result) ==
    {key \in DOMAIN result : result[key].t # "dict"}
        \cup UNION { {Nested(key, sub) : sub \in DOMAIN result[key].l} :
                       key \in {k \in DOMAIN result : result[k].t = "dict"} }

FlatValue(result, column) ==
    IF column \in DOMAIN result /\ result[column].t # "dict" THEN result[column]
    ELSE LET key == CHOOSE k \in DOMAIN result :
                        /\ result[k].t = "dict"
                        /\ \E sub \in DOMAIN result[k].l : Nested(k, sub) = column
             sub == CHOOSE j \in DOMAIN result[key].l : Nested(key, j) = column
         IN  result[key].l[sub]

\* pd.json_normalize(results, sep='.'): the union of the flattened columns,
\* NaN where a result has no value for a column
JsonNormalize(results) ==
    LET columns == UNION {FlatColumns(results[i]) : i \in 1..Len(results)}
    IN  DataFrame(columns,
                  [i \in 1..Len(results) |->
                      [c \in columns |->
                          IF c \in FlatColumns(results[i]) THEN FlatValue(results[i], c)
                          ELSE NaN]])

\* df.at[i, column] = value: a new column is NaN in the other rows
SetAt(df, i, column, value) ==
    DataFrame(df.columns \cup {column},
              [k \in 1..Len(df.rows) |->
                  [c \in df.columns \cup {column} |->
                      IF k = i /\ c = column THEN value
                      ELSE IF c \in df.columns THEN df.rows[k][c]
                      ELSE NaN]])

OpenfdaKeys == <<"device_class", "regulation_number", "medical_specialty_description">>
DeviceFields == <<"brand_name", "generic_name", "device_report_product_code">>

RECURSIVE CopyKeys(_, _, _, _, _)
\* for key in keys: if key in d: df.at[i, f'{prefix}.{key}'] = d[key]
CopyKeys(df, i, prefix, d, keys) ==
    IF keys = <<>> THEN df
    ELSE CopyKeys(IF Head(keys) \in DOMAIN d
                  THEN SetAt(df, i, Nested(prefix, Head(keys)), d[Head(keys)])
                  ELSE df,
                  i, prefix, d, Tail(keys))

\* if 'openfda' in row: ... for one result
CopyOpenfdaOf(df, i, result) ==
    IF "openfda" \in DOMAIN result
    THEN CopyKeys(df, i, "openfda", result["openfda"].l, OpenfdaKeys)
    ELSE df

\* The body of the loop of process_event_data for the result at index i.
ProcessEventResult(df, i, result) ==
    LET has_device == "device" \in DOMAIN result /\ result["device"].l # <<>>
        d1 == IF has_device
              THEN CopyKeys(df, i, "device", result["device"].l[1], DeviceFields)
              ELSE df
        d2 == CopyOpenfdaOf(d1, i, result)
        has_outcome ==
            /\ "patient" \in DOMAIN result
            /\ result["patient"].l # <<>>
            /\ "sequence_number_outcome" \in DOMAIN result["patient"].l[1]
            /\ result["patient"].l[1]["sequence_number_outcome"].l # <<>>
        d3 == IF has_outcome
              THEN SetAt(d2, i, "patient.outcome",
                         Str(result["patient"].l[1]["sequence_number_outcome"].l[1]))
              ELSE d2
        has_action ==
            "remedial_action" \in DOMAIN result /\ result["remedial_action"].l # <<>>
    IN  IF has_action
        THEN SetAt(d3, i, "remedial_action", Str(result["remedial_action"].l[1]))
        ELSE d3

\* `key in row['openfda']` raises TypeError on None and on a number.
OpenfdaRaises(result) ==
    "openfda" \in DOMAIN result /\ result["openfda"].t \in {"none", "num"}

\* The body of the loop of process_event_data raises: result['device'][0] on
\* a number (TypeError) or a dict (KeyError), the openfda test, and
\* len(result['patient']) or result['patient'][0] likewise.
EventResultRaises(result) ==
    \/ "device" \in DOMAIN result /\ Truthy(result["device"])
          /\ result["device"].t \in {"num", "dict"}
    \/ OpenfdaRaises(result)
    \/ "patient" \in DOMAIN result /\ Truthy(result["patient"])
          /\ result["patient"].t \in {"num", "dict"}

RECURSIVE CopyOpenfdaFrom(_, _, _)
\* for i, row in enumerate(data['results']): the openfda keys of row, from i on
CopyOpenfdaFrom(df, results, i) ==
    IF i > Len(results) THEN df
    ELSE CopyOpenfdaFrom(CopyOpenfdaOf(df, i, results[i]), results, i + 1)

RECURSIVE ProcessEventFrom(_, _, _)
\* for result_idx, result in enumerate(results), from i on
ProcessEventFrom(df, results, i) ==
    IF i > Len(results) THEN df
    ELSE ProcessEventFrom(ProcessEventResult(df, i, results[i]), results, i + 1)

\* Mutant: the expected columns are not added (as in
\* EnhancedFDARetriever._process_results, which has no such step).
AddMissingColumnsSkipped(df, source) == df

\* add_missing_columns: df[col] = None for every expected column not there
AddMissingColumns(df, source) ==
    LET columns == df.columns \cup DisplayColumns(source)
    IN  DataFrame(columns,
                  [k \in 1..Len(df.rows) |->
                      [c \in columns |->
                          IF c \in df.columns THEN df.rows[k][c] ELSE NoneV]])

\* `not data or 'results' not in data`
NoResultList(data) == data.kind \in {"none", "empty_dict", "error_body"}

\* process_results returns pd.DataFrame() at once.
ReturnEmptyFrame ==
    /\ npc = "call"
    /\ NoResultList(n_data)
    /\ n_df' = EmptyFrame
    /\ npc' = "done"
    /\ UNCHANGED <<n_data, n_source, aggVars, retVars, qbVars, callVars, filtVars, crossVars>>

\* df = pd.json_normalize(data['results'], sep='.')
FlattenResults ==
    /\ npc = "call"
    /\ ~NoResultList(n_data)
    /\ n_df' = JsonNormalize(n_data.results)
    /\ npc' = "flat"
    /\ UNCHANGED <<n_data, n_source, aggVars, retVars, qbVars, callVars, filtVars, crossVars>>

\* The openfda loop of the sources other than event (source.lower() is
\* "event" exactly when source.upper() is "EVENT").
CopyOpenfda ==
    /\ npc = "flat"
    /\ SourceLower(n_source) # "event"
    /\ IF \E i \in 1..Len(n_data.results) : OpenfdaRaises(n_data.results[i])
       THEN n_df' = n_df /\ npc' = "raised"
       ELSE n_df' = CopyOpenfdaFrom(n_df, n_data.results, 1) /\ npc' = "columns"
    /\ UNCHANGED <<n_data, n_source, aggVars, retVars, qbVars, callVars, filtVars, crossVars>>

\* df = process_event_data(df, data['results'])
ProcessEventData ==
    /\ npc = "flat"
    /\ SourceUpper(n_source) = "EVENT"
    /\ IF \E i \in 1..Len(n_data.results) : EventResultRaises(n_data.results[i])
       THEN n_df' = n_df /\ npc' = "raised"
       ELSE n_df' = ProcessEventFrom(n_df, n_data.results, 1) /\ npc' = "columns"
    /\ UNCHANGED <<n_data, n_source, aggVars, retVars, qbVars, callVars, filtVars, crossVars>>

\* df = add_missing_columns(df, source); return df
AddColumnsAndReturn ==
    /\ npc = "columns"
    /\ n_df' = AddMissingColumns(n_df, n_source)
    /\ npc' = "done"
    /\ UNCHANGED <<n_data, n_source, aggVars, retVars, qbVars, callVars, filtVars, crossVars>>

(***************************************************************************)
(* The specification of process_results                                    *)
(***************************************************************************)
\* Results of a response.
MaxResults == 2

sK1 == <<"K", "1">>
s2  == <<"2">>

RawClearance ==
    ("k_number" :> Str(sK1)) @@ ("device_name" :> Str(sPump))
        @@ ("decision_date" :> DateText(Jan10)) @@ ("zip_code" :> Str(s3))
        @@ ("openfda" :> Dict(("device_class" :> Str(s2)) @@ ("fei_number" :> List(<<s3>>))))

RawClearanceBare == ("k_number" :> Str(sK1)) @@ ("applicant" :> Str(sAcme))

RawClearanceExact ==
    ("k_number" :> Str(sK1)) @@ ("device_name" :> Str(sPump))
        @@ ("decision_date" :> DateText(Jan10)) @@ ("decision_description" :> Str(sLeak))
        @@ ("applicant" :> Str(sAcme)) @@ ("product_code" :> Str(sLZG))
        @@ ("clearance_type" :> NoneV)

RawRecall ==
    ("recalling_firm" :> Str(sAcme)) @@ ("reason_for_recall" :> Str(sLeak))
        @@ ("recall_classification" :> Str(sClassII))

RawEvent ==
    ("report_number" :> Str(sK1)) @@ ("date_received" :> DateText(Feb15))
        @@ ("device" :> Dicts(<< ("brand_name" :> Str(sPump)) @@ ("model_number" :> Str(s2)) >>))
        @@ ("patient" :> Dicts(<< ("sequence_number_outcome" :> List(<<sLeak>>)) >>))
        @@ ("remedial_action" :> List(<<sBreak>>))
        @@ ("openfda" :> Dict("regulation_number" :> Str(s3)))

RawEventBare ==
    ("report_number" :> Str(sK1)) @@ ("device" :> Dicts(<<>>))
        @@ ("product_problems" :> List(<<sLeak>>))

\* Results whose openfda, device or patient member is null, a number or an
\* empty list.
RawNullOpenfda == ("k_number" :> Str(sK1)) @@ ("openfda" :> NoneV)

RawEmptyMembers ==
    ("report_number" :> Str(sK1)) @@ ("openfda" :> List(<<>>))
        @@ ("device" :> NoneV) @@ ("patient" :> Dicts(<<>>))

RawScalarDevice == ("report_number" :> Str(sK1)) @@ ("device" :> Num(3))

RawScalarPatient == ("report_number" :> Str(sK1)) @@ ("patient" :> Num(3))

MalformedResults == {RawNullOpenfda, RawEmptyMembers, RawScalarDevice, RawScalarPatient}

RawResults ==
    {RawClearance, RawClearanceBare, RawClearanceExact, RawRecall, RawEvent, RawEventBare}
        \cup MalformedResults

Response(kind, results) == [kind |-> kind, results |-> results]

Responses ==
    {Response(kind, <<>>) : kind \in {"none", "empty_dict", "error_body"}}
        \cup {Response("results", results) : results \in TablesUpTo(RawResults, MaxResults)}

NormalizeSources ==
    {"510k", "510K", "event", "EVENT", "recall", "classification", "pma", "udi", "drug"}

InitNormalize ==
    /\ n_data \in Responses
    /\ n_source \in NormalizeSources
    /\ n_df = EmptyFrame
    /\ npc = "call"
    /\ AggIdle
    /\ RetIdle
    /\ QbIdle
    /\ CallIdle
    /\ FiltIdle
    /\ CrossIdle

NextNormalize ==
    \/ ReturnEmptyFrame
    \/ FlattenResults
    \/ CopyOpenfda
    \/ ProcessEventData
    \/ AddColumnsAndReturn

SpecNormalize == InitNormalize /\ [][NextNormalize]_vars

(***************************************************************************)
(* Properties of process_results                                           *)
(***************************************************************************)
Normalized == npc = "done"

\* The expected column c is one the event processing writes for `result`.
WrittenFromDevice(result, c) ==
    /\ SourceUpper(n_source) = "EVENT"
    /\ "device" \in DOMAIN result
    /\ result["device"].l # <<>>
    /\ \E f \in DOMAIN result["device"].l[1] : c = Nested("device", f)

\* The raw result has no value for the column c.
Lacks(result, c) == c \notin FlatColumns(result) /\ ~WrittenFromDevice(result, c)

\* C12 as stated: the normalized table has exactly the expected fields of
\* its source, each present (null where the raw records lack it), and no
\* field outside the set.
C12_ExactFieldSet ==
    Normalized =>
        /\ n_df.columns = DisplayColumns(n_source)
        /\ ~NoResultList(n_data) =>
              \A i \in 1..Len(n_df.rows) : \A c \in DisplayColumns(n_source) :
                  Lacks(n_data.results[i], c) => IsNull(n_df.rows[i][c])

\* C12 as amended: for a response that carries a result list the table has
\* every expected field of its source, null in the records that lack it,
\* and keeps every other field the raw records carry.
C12_ExpectedFieldsPresent ==
    Normalized /\ ~NoResultList(n_data) =>
        /\ DisplayColumns(n_source) \subseteq n_df.columns
        /\ Len(n_df.rows) = Len(n_data.results)
        /\ \A i \in 1..Len(n_df.rows) :
              /\ FlatColumns(n_data.results[i]) \subseteq n_df.columns
              /\ \A c \in DisplayColumns(n_source) :
                    Lacks(n_data.results[i], c) => IsNull(n_df.rows[i][c])

C12_ExpectedAddedExtraKept ==
    /\ Normalized
    /\ n_source = "510k"
    /\ n_data.kind = "results"
    /\ n_data.results = <<RawClearance, RawClearanceBare>>
    /\ "zip_code" \in n_df.columns
    /\ "openfda.fei_number" \in n_df.columns
    /\ n_df.rows[1]["clearance_type"] = NoneV
    /\ n_df.rows[2]["device_name"] = NaN
    /\ n_df.rows[2]["applicant"] = Str(sAcme)

\* C26: process_results returns an empty table for a response that is empty
\* or carries no result list, and raises for no response whose results have
\* a null, a number or an empty list where a nested object is expected.
C26_EmptyOrNeverRaises ==
    /\ (Normalized /\ NoResultList(n_data)) => n_df = EmptyFrame
    /\ npc # "raised"

\* What the code does with a null openfda member of a clearance.
C26_NullOpenfdaRaises ==
    /\ npc = "raised"
    /\ n_source = "510k"
    /\ n_data.results = <<RawNullOpenfda>>

(***************************************************************************)
(* EnhancedFDARetriever.get_cross_referenced_data.  A call of              *)
(* get_comprehensive_data is taken by what it returns: no record (every    *)
(* request failed, or nothing matched) or a table, here the date cells of  *)
(* its records after _standardize_dates.                                   *)
(***************************************************************************)
SourcePriority == <<"classification", "udi", "510k", "pma", "recall", "event">>

DaysPerYear == 365

\* The reading of datetime.now(): two years after 15 February 2024.
CrossNow == 2 * DaysPerYear + Feb15

\* _filter_by_date on a table that has the date field of the source
FilterByCutoff(df, cutoff_date) == SelectSeq(df, LAMBDA c : AtOrAfter(c, cutoff_date))

\* Mutant: the table is put into the dict without the test for emptiness.
StoreResultAlways(results, source, df, cutoff_date) ==
    Append(results,
           Item(SourceUpper(source),
                IF source \in {"recall", "event", "510k", "pma"}
                THEN FilterByCutoff(df, cutoff_date) ELSE df))

\* if not df.empty: (filter by date;) results[source.upper()] = df
StoreResult(results, source, df, cutoff_date) ==
    IF df = <<>> THEN results
    ELSE Append(results,
                Item(SourceUpper(source),
                     IF source \in {"recall", "event", "510k", "pma"}
                     THEN FilterByCutoff(df, cutoff_date) ELSE df))

CrossCutoff == CrossNow - x_years * DaysPerYear

\* One pass of the loop whose get_comprehensive_data call returns no record.
RetrieveNothing ==
    /\ xpc = "loop"
    /\ x_source <= Len(SourcePriority)
    /\ \E kind \in {"failed", "no_match"} :
          x_attempts' = Append(x_attempts, [source |-> SourcePriority[x_source],
                                            kind |-> kind, rows |-> <<>>])
    /\ x_results' = StoreResult(x_results, SourcePriority[x_source], <<>>, CrossCutoff)
    /\ x_source' = x_source + 1
    /\ UNCHANGED <<x_years, xpc, aggVars, retVars, qbVars, callVars, filtVars, normVars>>

\* The tables a source answers with.
CrossTables ==
    { <<Ts(Jan10)>>, <<Ts(Mar01), Ts(Jan10)>>, <<Ts(Mar01), NaT>> }

\* One pass of the loop whose get_comprehensive_data call returns records.
RetrieveRecords ==
    /\ xpc = "loop"
    /\ x_source <= Len(SourcePriority)
    /\ \E df \in CrossTables :
          /\ x_attempts' = Append(x_attempts, [source |-> SourcePriority[x_source],
                                               kind |-> "records", rows |-> df])
          /\ x_results' = StoreResult(x_results, SourcePriority[x_source], df, CrossCutoff)
    /\ x_source' = x_source + 1
    /\ UNCHANGED <<x_years, xpc, aggVars, retVars, qbVars, callVars, filtVars, normVars>>

\* return results
ReturnCrossReferenced ==
    /\ xpc = "loop"
    /\ x_source > Len(SourcePriority)
    /\ xpc' = "done"
    /\ UNCHANGED <<x_years, x_source, x_results, x_attempts,
                   aggVars, retVars, qbVars, callVars, filtVars, normVars>>

LookbackYears == {1, 2}

InitCross ==
    /\ x_years \in LookbackYears
    /\ x_source = 1
    /\ x_results = <<>>
    /\ x_attempts = <<>>
    /\ xpc = "loop"
    /\ AggIdle
    /\ RetIdle
    /\ QbIdle
    /\ CallIdle
    /\ FiltIdle
    /\ NormIdle

NextCross == RetrieveNothing \/ RetrieveRecords \/ ReturnCrossReferenced

SpecCross == InitCross /\ [][NextCross]_vars

\* The keys of the result map.
ResultKeys == {x_results[k].source : k \in 1..Len(x_results)}

SixSources == <<"classification", "udi", "510k", "pma", "recall", "event">>
SixKeys    == <<"CLASSIFICATION", "UDI", "510K", "PMA", "RECALL", "EVENT">>

\* C25: the sources are attempted one after the other in the order
\* classification, udi, 510k, pma, recall, event, all six of them by the time
\* the call returns, whatever the earlier ones gave; a source whose requests
\* all failed or that had no matching record is not a key of the result map.
C25_AllSourcesAttempted ==
    /\ Len(x_attempts) <= 6
    /\ \A k \in 1..Len(x_attempts) : x_attempts[k].source = SixSources[k]
    /\ xpc = "loop" => Len(x_attempts) = x_source - 1
    /\ xpc = "done" => Len(x_attempts) = 6
    /\ \A k \in 1..Len(x_attempts) :
          x_attempts[k].kind \in {"failed", "no_match"} => SixKeys[k] \notin ResultKeys

C25_LaterSourcesAfterFailures ==
    /\ xpc = "done"
    /\ x_attempts[1].kind = "failed"
    /\ x_attempts[2].kind = "no_match"
    /\ x_attempts[3].kind = "failed"
    /\ x_attempts[4].kind = "records"
    /\ x_attempts[5].kind = "failed"
    /\ x_attempts[6].kind = "records"
    /\ ResultKeys = {"PMA", "EVENT"}

\* A source all of whose records are older than the cutoff is a key of the
\* map, with an empty table.
C25_EmptyTableStored ==
    /\ xpc = "done"
    /\ \E k \in 1..Len(x_results) : x_results[k].source = "RECALL" /\ x_results[k].rows = <<>>

====
